---- MODULE Spec2Model ----
(***************************************************************************)
(* Model of the kuack agent: the Execution Engine (class Runtime) and the  *)
(* Session Manager (class Connection).  Both run on one JavaScript event   *)
(* loop: an action is one task of that loop, i.e. the synchronous code     *)
(* that runs from one suspension point (an await on I/O, a timer, a socket *)
(* event) to the next.  Awaits on already-settled promises are folded into *)
(* the task that settles them.                                             *)
(***************************************************************************)
EXTENDS Integers, Sequences, FiniteSets, TLC

(***************************************************************************)
(* Bounds of the model.                                                    *)
(***************************************************************************)
MaxExecs == 2

\* sockets (connection attempts) one Connection creates in a run
MaxSockets == 2

\* heartbeat ticks that go on to send, in a run
MaxBeats == 3

\* reports the agent writes to the session, in a run
MaxSends == 1

Execs == 1..MaxExecs

Sockets == 1..MaxSockets

\* pod keys `${namespace}/${name}`
PodKeys == {"default/a", "default/b"}

\* values of container.wasm.type; "" is an unset field
WasmTypes == {"", "wasi", "wasm-bindgen"}

\* containers[0] of a pod spec: has |-> FALSE is an empty container list,
\* path says whether wasm.path is set; fields the code never reads are left out
NoContainer == [has |-> FALSE, path |-> FALSE, type |-> ""]

Containers ==
    {NoContainer}
    \cup {[has |-> TRUE, path |-> FALSE, type |-> ""]}
    \cup [has : {TRUE}, path : {TRUE}, type : WasmTypes]

VARIABLES
    \* ---- Runtime ----
    runningPods,        \* Map<string, AbortController>: pod key -> controller
    executedPodCount,   \* Runtime.executedPodCount
    aborted,            \* aborted[e]: signal of the AbortController made by call e
    pc,                 \* pc[e]: where executePod call e is suspended
    thrown,             \* thrown[e]: the error call e's try block threw, if any
    pod,                \* pod[e]: of call e, the locals podKey and isWasi and
                        \* the length of the pod's container list
    statuses,           \* statuses[e]: what call e passed to onStatus, in order
    logs,               \* logs[e]: what the executor of call e passed to onLog
                        \* itself, in order
    console,            \* the function installed as console.log/error/warn/info:
                        \* 0 is the native one, e the interceptor of call e
    original,           \* original[e]: the console function call e captured
    blobUrls,           \* blob URLs created and not yet revoked (by call)
    deletedEarly        \* observation: the calls whose key was passed to
                        \* deletePod while their module download was pending

rtVars == <<runningPods, executedPodCount, aborted, pc, thrown, pod, statuses, logs,
            console, original, blobUrls, deletedEarly>>

VARIABLES
    \* ---- Connection ----
    socket,             \* this.socket: 0 is null, otherwise a socket
    readyState,         \* readyState[s] of each WebSocket the session created;
                        \* FAILING is a socket closed before it opened, whose
                        \* error and close events are still to come
    onclose,            \* onclose[s]: the close handler has been set on s
    attempt,            \* attempt[s]: where the connect() call that created
                        \* socket s is suspended, or how it settled
    isConnecting,       \* this.isConnecting
    shouldReconnect,    \* this.shouldReconnect
    hasConnectedOnce,   \* this.hasConnectedOnce
    currentState,       \* this.currentState
    reconnectDelay,     \* this.reconnectDelay
    heartbeatTimer,     \* this.heartbeatTimer: 0 is null, otherwise the
                        \* interval started by the attempt of that number
    intervals,          \* the intervals set by startHeartbeat and not cleared
    reconnectTimers,    \* pending handleDisconnect timeouts, counted by delay
    ticks,              \* heartbeat ticks suspended in detectResources
    beats,              \* heartbeat ticks that went on to send so far
    wire,               \* wire[s]: the message types written to socket s
    hidden,             \* document.hidden
    captured,           \* captured[b]: the suspended ticks whose isThrottled is b
    throttled,          \* the isThrottled flags of the heartbeats written
    since,              \* observation: which of the duplicate-identity close
                        \* and disconnect() happened since the last explicit
                        \* connect() call
    ever                \* observation: one of the two has happened

connVars == <<socket, readyState, onclose, attempt, isConnecting, shouldReconnect,
              hasConnectedOnce, currentState, reconnectDelay, heartbeatTimer,
              intervals, reconnectTimers, ticks, beats, wire, hidden, captured,
              throttled, since, ever>>

VARIABLES
    \* ---- Runtime.executePod of src/src/runtime.ts, up to its downloads ----
    step,               \* where the call is suspended
    podSpec,            \* containers[0] as the caller passed it
    containerSpec,      \* containers[0] as the call has changed it
    requests,           \* the registry requests of the call, in order
    manifest,           \* how the request for pkg/package.json settled
    reported            \* the phases the call passed to onStatus, in order

pathVars == <<step, podSpec, containerSpec, requests, manifest, reported>>

VARIABLES
    \* ---- Agent ----
    reports,            \* reports[e]: the statuses of the pod of call e written
                        \* to the socket in pod_status messages, in order
    forwarded,          \* forwarded[e]: the console lines the interceptLog of
                        \* call e passed to its onLog, in order
    rejected            \* rejected[type]: the reports of that type whose
                        \* sendMessage rejected and whose catch block has not
                        \* run yet

agentVars == <<reports, forwarded, rejected>>

vars == <<rtVars, connVars, pathVars, agentVars>>

(***************************************************************************)
(* Map helpers (Map.get / Map.set / Map.delete / Map.size).                *)
(***************************************************************************)
MapHas(m, k) == k \in DOMAIN m

MapSet(m, k, v) == [x \in (DOMAIN m) \cup {k} |-> IF x = k THEN v ELSE m[x]]

MapDelete(m, k) == [x \in (DOMAIN m) \ {k} |-> m[x]]

getRunningPodCount == Cardinality(DOMAIN runningPods)

(***************************************************************************)
(* Status and error texts.  A text is a sequence of fragments; a template  *)
(* literal concatenates, `${error}` of an Error object renders as          *)
(* "Error: " followed by its message.                                      *)
(***************************************************************************)
Contains(text, fragment) == \E i \in 1..Len(text) : text[i] = fragment

NewError(message) == [message |-> message]

ErrorToString(err) == <<"Error: ">> \o err.message

PodStatus(phase, message) == [phase |-> phase, message |-> message]

StatusPending == PodStatus("Pending", <<"Downloading WASM module">>)

StatusRunning(isWasi) ==
    PodStatus("Running",
              IF isWasi THEN <<"Executing WASI module">>
                        ELSE <<"Executing WASM module (bindgen)">>)

StatusSucceeded == PodStatus("Succeeded", <<"WASM execution completed">>)

StatusFailed(err) ==
    PodStatus("Failed", <<"Execution error: ">> \o ErrorToString(err))

ErrNoContainers == NewError(<<"No containers specified">>)

ErrMissingPath ==
    NewError(<<"Missing WASM configuration (path) in PodSpec. Node should have resolved this.">>)

ErrDownloadWASM == NewError(<<"Failed to download WASM: ", "404 Not Found">>)

ErrDownloadJS == NewError(<<"Failed to download JS: ", "404 Not Found">>)

ErrGlue(err) ==
    NewError(<<"Failed to download JS glue for bindgen module: ">> \o ErrorToString(err))

ErrAborted == NewError(<<"Execution aborted">>)

\* exit codes returned by wasi.start, and `${exitCode}`
ExitCodes == {0, 1, 2}

NumberToString(n) == CASE n = 0 -> "0" [] n = 1 -> "1" [] OTHER -> "2"

ErrExit(code) == NewError(<<"Process exited with code ", NumberToString(code)>>)

ErrModule == NewError(<<"module failure">>)

ErrBlob == NewError(<<"createObjectURL failed">>)

(***************************************************************************)
(* Runtime.executePod.  A frame holds what one call of executePod can      *)
(* change; the operators below thread it through the code in source order. *)
(***************************************************************************)
NoError == NewError(<<>>)

Frame(e) ==
    [pc          |-> pc[e],
     thrown      |-> NoError,
     statuses    |-> statuses[e],
     logs        |-> logs[e],
     runningPods |-> runningPods,
     console     |-> console,
     original    |-> original[e],
     blobUrls    |-> blobUrls,
     self        |-> e,
     calls       |-> <<>>]

\* the callbacks: a frame also lists, in order, the calls made to them in
\* the task; by is the interceptor that made the call, 0 the executor itself
onStatus(f, status) ==
    [f EXCEPT !.statuses = Append(@, status),
              !.calls = Append(@, [type |-> "pod_status", data |-> status, by |-> 0])]

onLog(f, line) ==
    [f EXCEPT !.logs = Append(@, line),
              !.calls = Append(@, [type |-> "pod_logs", data |-> line, by |-> 0])]

\* the text interceptLog looks for, and the lines the agent logs when a
\* report fails: console.error(`[Agent] Failed to report pod ...:`, err),
\* the Error re-serialized by JSON.stringify as {}
FailedStatusText == "[Agent] Failed to report pod status"

FailedLine(type) ==
    IF type = "pod_status" THEN <<FailedStatusText, ": {}">>
    ELSE <<"[Agent] Failed to report pod log", ": {}">>

\* the interceptors a console call goes through when function c is
\* installed: the interceptor of call c calls the function it captured
\* first, so the oldest comes first; captured[c] is what call c captured
RECURSIVE Interceptors(_, _)
Interceptors(capturedBy, c) ==
    IF c = 0 THEN <<>> ELSE Append(Interceptors(capturedBy, capturedBy[c]), c)

\* interceptLog: each interceptor passes the line to its onLog unless the
\* line contains the status-failure text (inLog is never set when a console
\* method is called: onLog returns before the agent logs anything)
interceptLog(capturedBy, c, line) ==
    LET through == Interceptors(capturedBy, c)
    IN  IF Contains(line, FailedStatusText) THEN <<>>
        ELSE [i \in 1..Len(through) |->
                 [type |-> "pod_logs", data |-> line, by |-> through[i]]]

\* console.log(line) in the code of a frame
consoleLog(f, line) ==
    [f EXCEPT !.calls = @ \o interceptLog([original EXCEPT ![f.self] = f.original],
                                          f.console, line)]

\* the code suspends at an await / throws / runs to the end of its block
Await(f, what) == [f EXCEPT !.pc = what]

Throw(f, err) == [f EXCEPT !.thrown = err]

Completed(f) == [f EXCEPT !.pc = "completed"]

Thrown(f) == f.thrown # NoError

podKey(e) == pod[e].key

\* mutant: an unset wasm.type is not defaulted
isWasiOfNoDefault(container) == container.type = "wasi"

\* const wasmType = container.wasm.type || "wasi"; isWasi = wasmType === "wasi"
isWasiOf(container) ==
    LET wasmType == IF container.type = "" THEN "wasi" ELSE container.type
    IN  wasmType = "wasi"

isWasi(e) == pod[e].isWasi

\* mutant: no finally block
executePodNoFinally(f, key) == [f EXCEPT !.pc = "returned"]

\* mutant: removing a key that is no longer in the map is an error
executePodFinallyStrict(f, key) ==
    IF MapHas(f.runningPods, key)
    THEN [f EXCEPT !.runningPods = MapDelete(@, key), !.pc = "returned"]
    ELSE [f EXCEPT !.pc = "rejected"]

\* finally { this.runningPods.delete(podKey) }, then the promise resolves
executePodFinally(f, key) ==
    [f EXCEPT !.runningPods = MapDelete(@, key), !.pc = "returned"]

\* catch (error) { onStatus(Failed: `Execution error: ${error}`) }
executePodCatch(f) == onStatus(f, StatusFailed(f.thrown))

\* mutant: try/finally without the catch block, an error rejects the promise
executePodTryNoCatch(f, key) ==
    IF Thrown(f) THEN [executePodFinally(f, key) EXCEPT !.pc = "rejected"]
    ELSE IF f.pc = "completed"
    THEN executePodFinally(onStatus(f, StatusSucceeded), key)
    ELSE f

\* try { body; onStatus(Succeeded) } catch { ... } finally { ... } around a
\* body that has thrown, has run to its end, or is suspended at an await
executePodTry(f, key) ==
    IF Thrown(f) THEN executePodFinally(executePodCatch(f), key)
    ELSE IF f.pc = "completed"
    THEN executePodFinally(onStatus(f, StatusSucceeded), key)
    ELSE f

\* executeWASI: try { body } catch (err) { if (signal.aborted) throw new
\* Error("Execution aborted"); throw err }
executeWASITry(f, e) ==
    IF Thrown(f) THEN Throw(f, IF aborted[e] THEN ErrAborted ELSE f.thrown)
    ELSE f

\* executeWASI up to its first await (WebAssembly.instantiate)
executeWASIStart(f, e) ==
    executeWASITry(IF aborted[e] THEN Throw(f, ErrAborted)
                   ELSE Await(f, "instantiate"),
                   e)

\* executeWASM: finally { restore the console methods; revoke the blob URL }
executeWASMFinally(f, e) ==
    [f EXCEPT !.console = f.original, !.blobUrls = @ \ {e}]

\* executeWASM: try { body } finally { ... }
executeWASMTry(f, e) ==
    IF Thrown(f) \/ f.pc = "completed" THEN executeWASMFinally(f, e) ELSE f

\* executeWASM up to its first await (the dynamic import): the console
\* methods are replaced and the blob URL is created before the try block
executeWASMStart(f, e, blobOk) ==
    LET f1 == consoleLog([f EXCEPT !.original = f.console, !.console = e],
                         <<"[Runtime] Loading wasm-bindgen JS module...">>)
        f2 == [f1 EXCEPT !.blobUrls = @ \cup {e}]
    IN  IF ~blobOk THEN Throw(f1, ErrBlob)
        ELSE executeWASMTry(IF aborted[e] THEN Throw(f2, ErrAborted)
                            ELSE Await(f2, "import"),
                            e)

\* mutant: the Running status is not emitted
startExecutionNoRunning(f, e, blobOk) ==
    LET f2 == [f EXCEPT !.runningPods = MapSet(@, podKey(e), e)]
    IN  IF isWasi(e) THEN executeWASIStart(f2, e)
                     ELSE executeWASMStart(f2, e, blobOk)

\* onStatus(Running); new AbortController; runningPods.set; dispatch
startExecution(f, e, blobOk) ==
    LET f1 == onStatus(f, StatusRunning(isWasi(e)))
        f2 == [f1 EXCEPT !.runningPods = MapSet(@, podKey(e), e)]
    IN  IF isWasi(e) THEN executeWASIStart(f2, e)
                     ELSE executeWASMStart(f2, e, blobOk)

\* mutant: the container list is not checked
executePodStartUnchecked(f, key, container) ==
    executePodTry(Await(onStatus(f, StatusPending), "downloadWASM"), key)

\* executePod from its call to its first await
executePodStart(f, key, container) ==
    LET f1 == onStatus(f, StatusPending)
    IN  executePodTry(IF ~container.has THEN Throw(f1, ErrNoContainers)
                      ELSE IF ~container.path THEN Throw(f1, ErrMissingPath)
                      ELSE Await(f1, "downloadWASM"),
                      key)

\* the continuation after `await this.downloadWASM(container)`
afterDownloadWASM(f, e, ok) ==
    executePodTry(IF ~ok THEN Throw(f, ErrDownloadWASM)
                  ELSE IF isWasi(e) THEN startExecution(f, e, TRUE)
                  ELSE Await(f, "downloadJS"),
                  podKey(e))

\* mutant: a failed glue download is ignored and the module runs without glue
afterDownloadJSIgnored(f, e, ok, blobOk) ==
    executePodTry(startExecution(f, e, blobOk), podKey(e))

\* the continuation after `await this.downloadJS(...)`; its rejection is
\* rethrown as the glue error
afterDownloadJS(f, e, ok, blobOk) ==
    executePodTry(IF ~ok THEN Throw(f, ErrGlue(ErrDownloadJS))
                  ELSE startExecution(f, e, blobOk),
                  podKey(e))

\* what WebAssembly.instantiate and wasi.start can do
WasiOutcomes ==
    [kind : {"instantiateRejects", "startTraps"}, code : {0}]
    \cup [kind : {"exits"}, code : ExitCodes]

\* mutant: the exit code is logged but not tested
executeWASIBodyIgnoresExit(f, e, outcome) ==
    IF outcome.kind = "instantiateRejects" THEN Throw(f, ErrModule)
    ELSE IF aborted[e] THEN Throw(f, ErrAborted)
    ELSE IF outcome.kind = "startTraps" THEN Throw(f, ErrModule)
    ELSE Completed(onLog(f, <<"WASI execution completed with exit code: ",
                              NumberToString(outcome.code)>>))

\* mutant: the token is not checked after the instantiation
executeWASIBodyUnchecked(f, e, outcome) ==
    IF outcome.kind = "instantiateRejects" THEN Throw(f, ErrModule)
    ELSE IF outcome.kind = "startTraps" THEN Throw(f, ErrModule)
    ELSE LET f1 == onLog(f, <<"WASI execution completed with exit code: ",
                             NumberToString(outcome.code)>>)
         IN  IF outcome.code # 0 THEN Throw(f1, ErrExit(outcome.code))
             ELSE Completed(f1)

\* executeWASI after `await WebAssembly.instantiate(...)`
executeWASIBody(f, e, outcome) ==
    IF outcome.kind = "instantiateRejects" THEN Throw(f, ErrModule)
    ELSE IF aborted[e] THEN Throw(f, ErrAborted)
    ELSE IF outcome.kind = "startTraps" THEN Throw(f, ErrModule)
    ELSE LET f1 == onLog(f, <<"WASI execution completed with exit code: ",
                             NumberToString(outcome.code)>>)
         IN  IF outcome.code # 0 THEN Throw(f1, ErrExit(outcome.code))
             ELSE Completed(f1)

afterInstantiate(f, e, outcome) ==
    executePodTry(executeWASITry(executeWASIBody(f, e, outcome), e), podKey(e))

\* executeWASM after `await this.importWasmBindgenModule(blobUrl)`
executeWASMImported(f, ok) ==
    IF ~ok THEN Throw(f, ErrModule)
    ELSE Await(consoleLog(f, <<"[Runtime] Initializing wasm-bindgen module...">>),
               "init")

afterImport(f, e, ok) ==
    executePodTry(executeWASMTry(executeWASMImported(f, ok), e), podKey(e))

\* executeWASM after `await module.default({module_or_path})`
executeWASMInitialized(f, e, ok, hasMain) ==
    LET f1 == consoleLog(f, <<"[Runtime] Running WASM module...">>)
    IN  IF ~ok THEN Throw(f, ErrModule)
        ELSE IF aborted[e] THEN Throw(f1, ErrAborted)
        ELSE IF hasMain THEN Await(f1, "main")
        ELSE Completed(consoleLog(onLog(f1,
                 <<"WASM module initialized successfully (no main function found)">>),
                 <<"[Runtime] WASM execution completed">>))

afterInit(f, e, ok, hasMain) ==
    executePodTry(executeWASMTry(executeWASMInitialized(f, e, ok, hasMain), e),
                  podKey(e))

\* executeWASM after `await module.main(envObj)`
executeWASMMainReturned(f, ok, hasResult) ==
    IF ~ok THEN Throw(f, ErrModule)
    ELSE Completed(consoleLog(
             IF hasResult
             THEN onLog(f, <<"WASM execution completed with result: ", "result">>)
             ELSE f,
             <<"[Runtime] WASM execution completed">>))

\* mutant: the token is checked once more when main returns
afterMainChecked(f, e, ok, hasResult) ==
    executePodTry(executeWASMTry(IF aborted[e] THEN Throw(f, ErrAborted)
                                 ELSE executeWASMMainReturned(f, ok, hasResult),
                                 e),
                  podKey(e))

afterMain(f, e, ok, hasResult) ==
    executePodTry(executeWASMTry(executeWASMMainReturned(f, ok, hasResult), e),
                  podKey(e))

\* write a frame back to the state
Commit(e, f) ==
    /\ pc' = [pc EXCEPT ![e] = f.pc]
    /\ thrown' = [thrown EXCEPT ![e] = f.thrown]
    /\ statuses' = [statuses EXCEPT ![e] = f.statuses]
    /\ logs' = [logs EXCEPT ![e] = f.logs]
    /\ runningPods' = f.runningPods
    /\ console' = f.console
    /\ original' = [original EXCEPT ![e] = f.original]
    /\ blobUrls' = f.blobUrls
    /\ UNCHANGED deletedEarly

(***************************************************************************)
(* The tasks of the Execution Engine.                                      *)
(***************************************************************************)
executePod(e, key, container) ==
    /\ UNCHANGED <<connVars, pathVars, agentVars>>
    /\ pc[e] = "idle"
    /\ \A d \in Execs : d < e => pc[d] # "idle"
    /\ executedPodCount' = executedPodCount + 1
    /\ pod' = [pod EXCEPT ![e] = [key |-> key, isWasi |-> isWasiOf(container),
                                  containers |-> IF container.has THEN 1 ELSE 0]]
    /\ LET f == executePodStart(Frame(e), key, container)
       IN  /\ pc' = [pc EXCEPT ![e] = f.pc]
           /\ thrown' = [thrown EXCEPT ![e] = f.thrown]
           /\ statuses' = [statuses EXCEPT ![e] = f.statuses]
           /\ runningPods' = f.runningPods
    /\ UNCHANGED <<aborted, logs, console, original, blobUrls, deletedEarly>>

downloadWASMSettled(e, ok) ==
    /\ UNCHANGED <<connVars, pathVars, agentVars>>
    /\ pc[e] = "downloadWASM"
    /\ Commit(e, afterDownloadWASM(Frame(e), e, ok))
    /\ UNCHANGED <<executedPodCount, aborted, pod>>

downloadJSSettled(e, ok, blobOk) ==
    /\ UNCHANGED <<connVars, pathVars, agentVars>>
    /\ pc[e] = "downloadJS"
    /\ Commit(e, afterDownloadJS(Frame(e), e, ok, blobOk))
    /\ UNCHANGED <<executedPodCount, aborted, pod>>

instantiateSettled(e, outcome) ==
    /\ UNCHANGED <<connVars, pathVars, agentVars>>
    /\ pc[e] = "instantiate"
    /\ Commit(e, afterInstantiate(Frame(e), e, outcome))
    /\ UNCHANGED <<executedPodCount, aborted, pod>>

importSettled(e, ok) ==
    /\ UNCHANGED <<connVars, pathVars, agentVars>>
    /\ pc[e] = "import"
    /\ Commit(e, afterImport(Frame(e), e, ok))
    /\ UNCHANGED <<executedPodCount, aborted, pod>>

initSettled(e, ok, hasMain) ==
    /\ UNCHANGED <<connVars, pathVars, agentVars>>
    /\ pc[e] = "init"
    /\ Commit(e, afterInit(Frame(e), e, ok, hasMain))
    /\ UNCHANGED <<executedPodCount, aborted, pod>>

mainSettled(e, ok, hasResult) ==
    /\ UNCHANGED <<connVars, pathVars, agentVars>>
    /\ pc[e] = "main"
    /\ Commit(e, afterMain(Frame(e), e, ok, hasResult))
    /\ UNCHANGED <<executedPodCount, aborted, pod>>

\* mutant: every running pod is aborted and removed
deletePodResultClearAll(m, signals, key) ==
    IF MapHas(m, key)
    THEN [runningPods |-> <<>>,
          aborted     |-> [e \in DOMAIN signals |->
                              signals[e] \/ \E k \in DOMAIN m : m[k] = e],
          threw       |-> FALSE]
    ELSE [runningPods |-> m, aborted |-> signals, threw |-> FALSE]

\* mutant: controller.abort() is called without the `if (controller)` guard
deletePodResultUnguarded(m, signals, key) ==
    IF MapHas(m, key)
    THEN [runningPods |-> MapDelete(m, key),
          aborted     |-> [signals EXCEPT ![m[key]] = TRUE],
          threw       |-> FALSE]
    ELSE [runningPods |-> m, aborted |-> signals, threw |-> TRUE]

\* mutant: a deletePod that finds no entry signals every token
deletePodResultSignalsAll(m, signals, key) ==
    IF MapHas(m, key)
    THEN [runningPods |-> MapDelete(m, key),
          aborted     |-> [signals EXCEPT ![m[key]] = TRUE],
          threw       |-> FALSE]
    ELSE [runningPods |-> m, aborted |-> [e \in DOMAIN signals |-> TRUE],
          threw |-> FALSE]

\* Runtime.deletePod: get the controller; if (controller) { abort; delete }
deletePodResult(m, signals, key) ==
    IF MapHas(m, key)
    THEN [runningPods |-> MapDelete(m, key),
          aborted     |-> [signals EXCEPT ![m[key]] = TRUE],
          threw       |-> FALSE]
    ELSE [runningPods |-> m, aborted |-> signals, threw |-> FALSE]

deletePodCall(key) ==
    /\ UNCHANGED <<connVars, pathVars, agentVars>>
    /\ LET r == deletePodResult(runningPods, aborted, key)
       IN  /\ runningPods' = r.runningPods
           /\ aborted' = r.aborted
    /\ UNCHANGED <<executedPodCount, pc, thrown, pod, statuses, logs, console,
                   original, blobUrls>>

deletePod(key) ==
    /\ deletePodCall(key)
    /\ UNCHANGED deletedEarly

\* deletePod, observed: the calls for this key that are still downloading
\* their module are recorded
deletePodObserved(key) ==
    /\ deletePodCall(key)
    /\ deletedEarly' = deletedEarly \cup
           {e \in Execs : pc[e] = "downloadWASM" /\ podKey(e) = key}

\* deletePod for a key whose calls are still downloading, none of them past
\* its downloads, observed
deletePodEarly(key) ==
    /\ \E e \in Execs : pc[e] \in {"downloadWASM", "downloadJS"} /\ podKey(e) = key
    /\ \A e \in Execs :
          podKey(e) = key => pc[e] \notin {"instantiate", "import", "init", "main"}
    /\ deletePodCall(key)
    /\ deletedEarly' = deletedEarly \cup
           {e \in Execs : pc[e] \in {"downloadWASM", "downloadJS"} /\ podKey(e) = key}

(***************************************************************************)
(* Runtime.executePod of src/src/runtime.ts: how the module path is found. *)
(* Strings the code takes apart (image references, the manifest's main     *)
(* field) are sequences of characters; a path is a sequence of fragments.  *)
(* The call is followed up to its request for the glue script.             *)
(***************************************************************************)
\* image references: registry/org/name:tag, registry/name, name:tag and
\* registry:port/name, with a dash in the name
Images ==
    {<<"r", "/", "o", "/", "s", "-", "c", ":", "1">>,
     <<"r", "/", "k", "-", "c">>,
     <<"t", "-", "i", ":", "l">>,
     <<"r", ":", "5", "/", "c">>}

\* an explicit container.wasm.path
ExplicitPath == <<"pkg/", "m", "_bg.wasm">>

NoPath == <<>>

ManifestPath == <<"pkg/package.json">>

\* containers[0]: image and wasm.path (NoPath when unset)
PathContainers ==
    {[has |-> FALSE, image |-> <<>>, path |-> NoPath]}
    \cup [has : {TRUE}, image : Images, path : {NoPath, ExplicitPath}]

\* how downloadFile and JSON.parse of the manifest end: the download
\* rejects; the text is not JSON; the text is the JSON null; the object has
\* no main; main is not a string; main is a string
Manifests ==
    [kind : {"rejects", "malformed", "null", "noMain", "mainNotString"}, main : {<<>>}]
    \cup [kind : {"main"}, main : {<<"m", ".", "j", "s">>, <<"p", "/", "m", ".", "j", "s">>, <<"m">>}]

NoManifest == [kind |-> "none", main |-> <<>>]

EndsWith(str, suffix) ==
    /\ Len(str) >= Len(suffix)
    /\ SubSeq(str, Len(str) - Len(suffix) + 1, Len(str)) = suffix

\* mainJs.replace(/\.js$/, "_bg.wasm"), then `pkg/${wasmFilename}`
discoveredPath(mainJs) ==
    <<"pkg/">> \o (IF EndsWith(mainJs, <<".", "j", "s">>)
                   THEN SubSeq(mainJs, 1, Len(mainJs) - 3) \o <<"_bg.wasm">>
                   ELSE mainJs)

\* the end of the longest run of [^/:] that starts after position i
NameEnd(str, i) ==
    CHOOSE j \in i..Len(str) :
        /\ \A k \in (i + 1)..j : str[k] \notin {"/", ":"}
        /\ j = Len(str) \/ str[j + 1] \in {"/", ":"}

\* the positions of a "/" where /\/([^/:]+)(?::.+)?$/ matches
MatchStarts(str) ==
    {i \in 1..Len(str) :
        /\ str[i] = "/"
        /\ NameEnd(str, i) > i
        /\ \/ NameEnd(str, i) = Len(str)
           \/ /\ str[NameEnd(str, i) + 1] = ":"
              /\ NameEnd(str, i) + 2 <= Len(str)}

\* imageRef.match(...)[1] at the leftmost match; <<>> when there is none
matchName(str) ==
    IF MatchStarts(str) = {} THEN <<>>
    ELSE LET i == CHOOSE i \in MatchStarts(str) : \A j \in MatchStarts(str) : i <= j
         IN  SubSeq(str, i + 1, NameEnd(str, i))

\* name.replace(/-/g, "_")
snakeName(name) == [i \in DOMAIN name |-> IF name[i] = "-" THEN "_" ELSE name[i]]

\* the catch block of the discovery: if (!container.wasm?.path) and the image
\* reference matches, container.wasm.path = `pkg/${snakeName}_bg.wasm`
fallback(c) ==
    IF c.path = NoPath /\ matchName(c.image) # <<>>
    THEN [c EXCEPT !.path = <<"pkg/">> \o snakeName(matchName(c.image)) \o <<"_bg.wasm">>]
    ELSE c

\* the discovery after `await this.downloadFile(...)`: the try block throws
\* when the download rejects, when JSON.parse throws and when pkgJson is null
discover(c, m) ==
    IF m.kind \in {"rejects", "malformed", "null"} THEN fallback(c)
    ELSE IF m.kind = "main" THEN [c EXCEPT !.path = discoveredPath(m.main)]
    ELSE c

Request(file, path) == [file |-> file, path |-> path]

\* wasmPath.replace(/_bg\.wasm$/, ".js") on a path of fragments
jsPathOf(path) ==
    IF path # <<>> /\ path[Len(path)] = "_bg.wasm"
    THEN SubSeq(path, 1, Len(path) - 1) \o <<".js">>
    ELSE path

\* executePod up to `await this.downloadFile(imageRef, "pkg/package.json")`
executePodDiscovers(c) ==
    /\ step = "idle"
    /\ podSpec' = c
    /\ containerSpec' = c
    /\ IF ~c.has
       THEN /\ step' = "returned"
            /\ reported' = <<"Pending", "Failed">>
            /\ requests' = requests
       ELSE /\ step' = "packageJson"
            /\ reported' = <<"Pending">>
            /\ requests' = Append(requests, Request("text", ManifestPath))
    /\ UNCHANGED <<manifest, rtVars, connVars, agentVars>>

\* the manifest request settles; downloadWASM sends the path when it is set
packageJsonSettled(m) ==
    /\ step = "packageJson"
    /\ manifest' = m
    /\ containerSpec' = discover(containerSpec, m)
    /\ requests' = Append(requests, Request("wasm", containerSpec'.path))
    /\ step' = "downloadWASM"
    /\ UNCHANGED <<podSpec, reported, rtVars, connVars, agentVars>>

\* the module download settles; downloadJS derives the glue path
moduleSettled(ok) ==
    /\ step = "downloadWASM"
    /\ IF ok
       THEN /\ step' = "downloadJS"
            /\ requests' = Append(requests, Request("text", jsPathOf(containerSpec.path)))
            /\ reported' = reported
       ELSE /\ step' = "returned"
            /\ requests' = requests
            /\ reported' = Append(reported, "Failed")
    /\ UNCHANGED <<podSpec, containerSpec, manifest, rtVars, connVars, agentVars>>

InitPath ==
    /\ step = "idle"
    /\ podSpec = [has |-> FALSE, image |-> <<>>, path |-> NoPath]
    /\ containerSpec = [has |-> FALSE, image |-> <<>>, path |-> NoPath]
    /\ requests = <<>>
    /\ manifest = NoManifest
    /\ reported = <<>>

NextPath ==
    \/ \E c \in PathContainers : executePodDiscovers(c)
    \/ \E m \in Manifests : packageJsonSettled(m)
    \/ \E ok \in BOOLEAN : moduleSettled(ok)

(***************************************************************************)
(* The executors called on their own, as their tests call them: the caller *)
(* owns the token and may have signalled it before the call, and the       *)
(* promise of the call resolves or rejects.                                *)
(***************************************************************************)
\* the promise of an executor: rejected with what was thrown, resolved when
\* the body ran to its end, pending at an await
executorSettle(f) ==
    IF Thrown(f) THEN [f EXCEPT !.pc = "rejected"]
    ELSE IF f.pc = "completed" THEN [f EXCEPT !.pc = "resolved"]
    ELSE f

executorCall(e, wasi, f) ==
    /\ pc[e] = "idle"
    /\ \A d \in Execs : d < e => pc[d] # "idle"
    /\ pod' = [pod EXCEPT ![e] = [key |-> "", isWasi |-> wasi, containers |-> 1]]
    /\ Commit(e, executorSettle(f))
    /\ UNCHANGED <<executedPodCount, aborted, connVars, pathVars, agentVars>>

executorResume(e, at, f) ==
    /\ pc[e] = at
    /\ Commit(e, executorSettle(f))
    /\ UNCHANGED <<executedPodCount, aborted, pod, connVars, pathVars, agentVars>>

executeWASI(e) == executorCall(e, TRUE, executeWASIStart(Frame(e), e))

executeWASM(e, blobOk) ==
    executorCall(e, FALSE, executeWASMStart(Frame(e), e, blobOk))

instantiateReturns(e, outcome) ==
    executorResume(e, "instantiate",
                   executeWASITry(executeWASIBody(Frame(e), e, outcome), e))

importReturns(e, ok) ==
    executorResume(e, "import",
                   executeWASMTry(executeWASMImported(Frame(e), ok), e))

initReturns(e, ok, hasMain) ==
    executorResume(e, "init",
                   executeWASMTry(executeWASMInitialized(Frame(e), e, ok, hasMain), e))

mainReturns(e, ok, hasResult) ==
    executorResume(e, "main",
                   executeWASMTry(executeWASMMainReturned(Frame(e), ok, hasResult), e))

\* the caller signals the token of call e: controller.abort()
abort(e) ==
    /\ ~aborted[e]
    /\ aborted' = [aborted EXCEPT ![e] = TRUE]
    /\ UNCHANGED <<runningPods, executedPodCount, pc, thrown, pod, statuses, logs,
                   console, original, blobUrls, deletedEarly, connVars, pathVars, agentVars>>

\* the tokens the callers hand in: signalled already or not
InitExecutors ==
    /\ runningPods = <<>>
    /\ executedPodCount = 0
    /\ aborted \in [Execs -> BOOLEAN]
    /\ pc = [e \in Execs |-> "idle"]
    /\ thrown = [e \in Execs |-> NoError]
    /\ pod = [e \in Execs |-> [key |-> "", isWasi |-> FALSE, containers |-> 0]]
    /\ statuses = [e \in Execs |-> <<>>]
    /\ logs = [e \in Execs |-> <<>>]
    /\ console = 0
    /\ original = [e \in Execs |-> 0]
    /\ blobUrls = {}
    /\ deletedEarly = {}

NextExecutors ==
    \/ \E e \in Execs : executeWASI(e)
    \/ \E e \in Execs, blobOk \in BOOLEAN : executeWASM(e, blobOk)
    \/ \E e \in Execs, outcome \in WasiOutcomes : instantiateReturns(e, outcome)
    \/ \E e \in Execs, ok \in BOOLEAN : importReturns(e, ok)
    \/ \E e \in Execs, ok \in BOOLEAN, hasMain \in BOOLEAN : initReturns(e, ok, hasMain)
    \/ \E e \in Execs, ok \in BOOLEAN, hasResult \in BOOLEAN : mainReturns(e, ok, hasResult)
    \/ \E e \in Execs : abort(e)

(***************************************************************************)
(* The Connection.  A step is one task of the page's event loop: a call of *)
(* connect() or disconnect(), a socket event, a timer, or the resumption   *)
(* of a suspended call; what the code runs before it next waits for one of *)
(* those is part of the step.  The operators below take and return the     *)
(* record of the Connection's fields.                                      *)
(***************************************************************************)
InitialReconnectDelay == 200

maxReconnectDelay == 3000

CLOSE_CODE_DUPLICATE_BROWSER == 4001

\* the codes a close event carries: the handler tells the duplicate-identity
\* code from every other code, of which 1006 (abnormal closure) is one
CloseCodes == {CLOSE_CODE_DUPLICATE_BROWSER, 1006}

\* the code of the close event of a connection that failed
CLOSE_ABNORMAL == CHOOSE code \in CloseCodes : code # CLOSE_CODE_DUPLICATE_BROWSER

Min(a, b) == IF a < b THEN a ELSE b

\* the values reconnectDelay takes: 200 doubled up to the maximum
Delays == {InitialReconnectDelay, 400, 800, 1600, maxReconnectDelay}

Conn ==
    [socket |-> socket, readyState |-> readyState, onclose |-> onclose,
     attempt |-> attempt, isConnecting |-> isConnecting,
     shouldReconnect |-> shouldReconnect, hasConnectedOnce |-> hasConnectedOnce,
     currentState |-> currentState, reconnectDelay |-> reconnectDelay,
     heartbeatTimer |-> heartbeatTimer, intervals |-> intervals,
     reconnectTimers |-> reconnectTimers, ticks |-> ticks, beats |-> beats,
     wire |-> wire, hidden |-> hidden, captured |-> captured,
     throttled |-> throttled]

\* this.socket && this.socket.readyState === WebSocket.OPEN
socketIsOpen(c) == c.socket # 0 /\ c.readyState[c.socket] = "OPEN"

\* the sockets created so far, and the one new WebSocket() creates next
Created(c) == {s \in Sockets : c.readyState[s] # "none"}

NewSocket(c) == Cardinality(Created(c)) + 1

setState(c, state) == [c EXCEPT !.currentState = state]

\* if (this.heartbeatTimer) { clearInterval(...); this.heartbeatTimer = null }
clearHeartbeat(c) ==
    IF c.heartbeatTimer # 0
    THEN [c EXCEPT !.intervals = @ \ {c.heartbeatTimer}, !.heartbeatTimer = 0]
    ELSE c

\* WebSocket.close(): a socket still connecting fails, an open one starts its
\* closing handshake, a closing or closed one is left as it is
close(c, s) ==
    [c EXCEPT !.readyState[s] =
        CASE @ = "CONNECTING" -> "FAILING"
          [] @ = "OPEN" -> "CLOSING"
          [] OTHER -> @]

\* the interval of the attempt that calls it replaces this.heartbeatTimer
startHeartbeat(c, s) ==
    [c EXCEPT !.heartbeatTimer = s, !.intervals = @ \cup {s}]

\* sendMessage past its guard: the message is written to this.socket
sendMessage(c, type) == [c EXCEPT !.wire[c.socket] = Append(@, type)]

\* a heartbeat message with its isThrottled flag is written
sendHeartbeat(c, isThrottled) ==
    [sendMessage(c, "heartbeat") EXCEPT !.throttled = Append(@, isThrottled)]

\* the message types the agent passes to sendMessage (pod reports)
ReportTypes == {"pod_status", "pod_logs"}

ErrNotConnected == "Not connected"

\* mutant: the guard tests this.socket but not its readyState
sendMessageCallLoose(c, type) ==
    IF c.socket = 0
    THEN [conn |-> c, threw |-> ErrNotConnected]
    ELSE [conn |-> sendMessage(c, type), threw |-> ""]

\* a call of sendMessage: the session it leaves and the error it rejects with
sendMessageCall(c, type) ==
    IF ~socketIsOpen(c)
    THEN [conn |-> c, threw |-> ErrNotConnected]
    ELSE [conn |-> sendMessage(c, type), threw |-> ""]

\* mutant: the heartbeat is cleared but no reconnect timeout is set
handleDisconnectNoTimeout(c) == clearHeartbeat(c)

handleDisconnect(c) ==
    LET c1 == clearHeartbeat(c)
    IN  [c1 EXCEPT !.reconnectTimers[c1.reconnectDelay] = @ + 1]

\* mutant: the catch block retries whether or not a socket has opened before
connectCatchAlwaysRetries(c, s) ==
    LET c1 == [c EXCEPT !.socket = 0, !.isConnecting = FALSE]
    IN  IF c1.shouldReconnect
        THEN [handleDisconnect(c1) EXCEPT !.attempt[s] = "resolved"]
        ELSE [c1 EXCEPT !.attempt[s] = "rejected"]

\* mutant: the catch block never retries
connectCatchAlwaysThrows(c, s) ==
    [c EXCEPT !.socket = 0, !.isConnecting = FALSE, !.attempt[s] = "rejected"]

\* the catch block of connect(): the call resolves when it schedules a retry
\* and rejects when it rethrows
connectCatch(c, s) ==
    LET c1 == [c EXCEPT !.socket = 0, !.isConnecting = FALSE]
    IN  IF c1.shouldReconnect /\ c1.hasConnectedOnce
        THEN [handleDisconnect(c1) EXCEPT !.attempt[s] = "resolved"]
        ELSE [c1 EXCEPT !.attempt[s] = "rejected"]

\* register() once detectResources has returned, then the rest of connect()
connectRegistered(c, s) ==
    IF ~socketIsOpen(c)
    THEN connectCatch(c, s)
    ELSE LET c1 == startHeartbeat(sendMessage(c, "register"), s)
         IN  setState([c1 EXCEPT !.isConnecting = FALSE,
                                 !.attempt[s] = "resolved"], "connected")

\* connect() after the open promise resolved: the handlers are set on
\* this.socket, whichever socket that is by now, and register() starts
connectOpened(c, s, detected) ==
    IF c.socket = 0
    THEN connectCatch(c, s)
    ELSE LET c1 == [c EXCEPT !.onclose[c.socket] = TRUE]
         IN  IF detected
             THEN [c1 EXCEPT !.attempt[s] = "registering"]
             ELSE connectCatch(c1, s)

\* the onopen handler of socket s
socketOnOpen(c, s, detected) ==
    LET c1 == [c EXCEPT !.hasConnectedOnce = TRUE]
    IN  IF c1.attempt[s] = "opening"
        THEN connectOpened(c1, s, detected)
        ELSE c1

\* the onerror handler of socket s, and the timeout's reject
socketOnError(c, s) ==
    IF c.attempt[s] = "opening" THEN connectCatch(c, s) ELSE c

\* the mutant of onCloseStops: the duplicate-identity close is handled as
\* any other close
onCloseRetries(c) ==
    IF c.shouldReconnect
    THEN handleDisconnect(setState(c, "reconnecting"))
    ELSE setState(c, "disconnected")

\* the onclose handler's branch for the duplicate-identity code
onCloseStops(c) == setState([c EXCEPT !.shouldReconnect = FALSE], "disconnected")

\* the onclose handler
socketOnClose(c, code) ==
    LET c1 == clearHeartbeat([c EXCEPT !.socket = 0, !.isConnecting = FALSE])
    IN  IF code = CLOSE_CODE_DUPLICATE_BROWSER
        THEN onCloseStops(c1)
        ELSE IF c1.shouldReconnect
             THEN handleDisconnect(setState(c1, "reconnecting"))
             ELSE setState(c1, "disconnected")

\* connect() returns at once
connectReturnsEarly(c) == c.isConnecting \/ socketIsOpen(c)

\* connect() up to the wait for the socket to open
connect(c) ==
    IF connectReturnsEarly(c)
    THEN c
    ELSE LET s == NewSocket(c)
             c1 == setState([c EXCEPT !.isConnecting = TRUE,
                                      !.shouldReconnect = TRUE], "connecting")
         IN  [c1 EXCEPT !.socket = s,
                        !.readyState[s] = "CONNECTING",
                        !.attempt[s] = "opening"]

\* a connect() that creates a socket needs one of the sockets of the run
canConnect(c) == connectReturnsEarly(c) \/ NewSocket(c) <= MaxSockets

\* the mutant of disconnectFlags: reconnection stays enabled
disconnectKeepsReconnect(c) == [c EXCEPT !.hasConnectedOnce = FALSE]

disconnectFlags(c) ==
    [c EXCEPT !.shouldReconnect = FALSE, !.hasConnectedOnce = FALSE]

disconnectSocket(c) ==
    IF c.socket # 0
    THEN [close(c, c.socket) EXCEPT !.socket = 0]
    ELSE c

disconnect(c) ==
    disconnectSocket(clearHeartbeat(setState(disconnectFlags(c), "disconnected")))

\* a timeout that calls connect() needs what connect() needs
canReconnect(c) == ~c.shouldReconnect \/ canConnect(c)

\* mutant: the timeout doubles the delay but does not call connect()
reconnectTimeoutIdle(c) ==
    IF c.shouldReconnect
    THEN [c EXCEPT !.reconnectDelay = Min(c.reconnectDelay * 2, maxReconnectDelay)]
    ELSE c

\* mutant: the timeout calls connect() without doubling the delay
reconnectTimeoutNoBackoff(c) == IF c.shouldReconnect THEN connect(c) ELSE c

\* the timeout set by handleDisconnect
reconnectTimeout(c) ==
    IF c.shouldReconnect
    THEN connect([c EXCEPT !.reconnectDelay =
                      Min(c.reconnectDelay * 2, maxReconnectDelay)])
    ELSE c

\* a tick that goes on to send needs one of the heartbeats of the run
canTick(c) == ~socketIsOpen(c) \/ c.beats < MaxBeats

\* mutant: a tick whose detection fails stops the heartbeat
heartbeatTickStopsOnFailure(c, detected) ==
    IF ~socketIsOpen(c)
    THEN clearHeartbeat(c)
    ELSE IF detected
         THEN [c EXCEPT !.ticks = @ + 1, !.beats = @ + 1, !.captured[c.hidden] = @ + 1]
         ELSE [clearHeartbeat(c) EXCEPT !.beats = @ + 1]

\* the interval callback up to its wait for detectResources; isThrottled is
\* read from document.hidden before the wait
heartbeatTick(c, detected) ==
    IF ~socketIsOpen(c)
    THEN clearHeartbeat(c)
    ELSE IF detected
         THEN [c EXCEPT !.ticks = @ + 1, !.beats = @ + 1, !.captured[c.hidden] = @ + 1]
         ELSE [sendHeartbeat(c, c.hidden) EXCEPT !.beats = @ + 1]

\* the interval callback after detectResources: sendMessage rejects, and the
\* rejection is logged, when the socket is no longer open
heartbeatSend(c, isThrottled) ==
    LET c1 == [c EXCEPT !.ticks = @ - 1, !.captured[isThrottled] = @ - 1]
    IN  IF socketIsOpen(c1) THEN sendHeartbeat(c1, isThrottled) ELSE c1

CommitConn(c) ==
    /\ socket' = c.socket
    /\ readyState' = c.readyState
    /\ onclose' = c.onclose
    /\ attempt' = c.attempt
    /\ isConnecting' = c.isConnecting
    /\ shouldReconnect' = c.shouldReconnect
    /\ hasConnectedOnce' = c.hasConnectedOnce
    /\ currentState' = c.currentState
    /\ reconnectDelay' = c.reconnectDelay
    /\ heartbeatTimer' = c.heartbeatTimer
    /\ intervals' = c.intervals
    /\ reconnectTimers' = c.reconnectTimers
    /\ ticks' = c.ticks
    /\ beats' = c.beats
    /\ wire' = c.wire
    /\ captured' = c.captured
    /\ throttled' = c.throttled
    /\ UNCHANGED hidden
    /\ UNCHANGED <<rtVars, pathVars, agentVars>>

\* the application calls connect()
connectCalled ==
    /\ canConnect(Conn)
    /\ CommitConn(connect(Conn))
    /\ since' = {}
    /\ UNCHANGED ever

\* the application calls disconnect()
disconnectCalled ==
    /\ CommitConn(disconnect(Conn))
    /\ since' = since \cup {"disconnect"}
    /\ ever' = TRUE

\* the reports written to any socket
ReportsSent ==
    UNION {{<<s, i>> : i \in {j \in DOMAIN wire[s] : wire[s][j] \in ReportTypes}} :
           s \in Sockets}

\* the agent calls sendMessage with a report; a call that writes needs one
\* of the reports of the run
sendMessageCalled(type) ==
    /\ ~socketIsOpen(Conn) \/ Cardinality(ReportsSent) < MaxSends
    /\ CommitConn(sendMessageCall(Conn, type).conn)
    /\ UNCHANGED <<since, ever>>

\* socket s opens
socketOpens(s, detected) ==
    /\ readyState[s] = "CONNECTING"
    /\ CommitConn(socketOnOpen([Conn EXCEPT !.readyState[s] = "OPEN"], s, detected))
    /\ UNCHANGED <<since, ever>>

\* socket s fails before it opened: its error event, then its close event
socketFails(s) ==
    /\ readyState[s] \in {"CONNECTING", "FAILING"}
    /\ LET c1 == socketOnError([Conn EXCEPT !.readyState[s] = "CLOSED"], s)
       IN  CommitConn(IF c1.onclose[s] THEN socketOnClose(c1, CLOSE_ABNORMAL) ELSE c1)
    /\ UNCHANGED <<since, ever>>

\* socket s, once open, closes with a code
socketCloses(s, code) ==
    /\ readyState[s] \in {"OPEN", "CLOSING"}
    /\ LET c1 == [Conn EXCEPT !.readyState[s] = "CLOSED"]
           dup == onclose[s] /\ code = CLOSE_CODE_DUPLICATE_BROWSER
       IN  /\ CommitConn(IF c1.onclose[s] THEN socketOnClose(c1, code) ELSE c1)
           /\ since' = IF dup THEN since \cup {"duplicate"} ELSE since
           /\ ever' = IF dup THEN TRUE ELSE ever

\* the 10 second timeout of the attempt that created socket s
connectTimeout(s) ==
    /\ attempt[s] = "opening"
    /\ CommitConn(socketOnError(IF socket # 0 THEN close(Conn, socket) ELSE Conn, s))
    /\ UNCHANGED <<since, ever>>

\* detectResources returns to the register() of the attempt that created s
registerResumes(s) ==
    /\ attempt[s] = "registering"
    /\ CommitConn(connectRegistered(Conn, s))
    /\ UNCHANGED <<since, ever>>

\* a timeout set by handleDisconnect with delay d fires
reconnectTimeoutFires(d) ==
    /\ reconnectTimers[d] > 0
    /\ LET c1 == [Conn EXCEPT !.reconnectTimers[d] = @ - 1]
       IN  /\ canReconnect(c1)
           /\ CommitConn(reconnectTimeout(c1))
    /\ UNCHANGED <<since, ever>>

\* interval i fires
heartbeatFires(i, detected) ==
    /\ i \in intervals
    /\ canTick(Conn)
    /\ CommitConn(heartbeatTick(Conn, detected))
    /\ UNCHANGED <<since, ever>>

\* detectResources returns to a suspended interval callback
heartbeatResumes ==
    /\ ticks > 0
    /\ \E isThrottled \in BOOLEAN :
          /\ captured[isThrottled] > 0
          /\ CommitConn(heartbeatSend(Conn, isThrottled))
    /\ UNCHANGED <<since, ever>>

InitConnection ==
    /\ socket = 0
    /\ readyState = [s \in Sockets |-> "none"]
    /\ onclose = [s \in Sockets |-> FALSE]
    /\ attempt = [s \in Sockets |-> "none"]
    /\ isConnecting = FALSE
    /\ shouldReconnect = TRUE
    /\ hasConnectedOnce = FALSE
    /\ currentState = "disconnected"
    /\ reconnectDelay = InitialReconnectDelay
    /\ heartbeatTimer = 0
    /\ intervals = {}
    /\ reconnectTimers = [d \in Delays |-> 0]
    /\ ticks = 0
    /\ beats = 0
    /\ wire = [s \in Sockets |-> <<>>]
    /\ hidden = FALSE
    /\ captured = [b \in BOOLEAN |-> 0]
    /\ throttled = <<>>
    /\ since = {}
    /\ ever = FALSE

NextConnection ==
    \/ connectCalled
    \/ disconnectCalled
    \/ \E s \in Sockets, detected \in BOOLEAN : socketOpens(s, detected)
    \/ \E s \in Sockets : socketFails(s)
    \/ \E s \in Sockets, code \in CloseCodes : socketCloses(s, code)
    \/ \E s \in Sockets : connectTimeout(s)
    \/ \E s \in Sockets : registerResumes(s)
    \/ \E d \in Delays : reconnectTimeoutFires(d)
    \/ \E i \in Sockets, detected \in BOOLEAN : heartbeatFires(i, detected)
    \/ heartbeatResumes

(***************************************************************************)
(* The Connection left to itself once a socket has opened: until then the  *)
(* user calls connect() and the transport may fail to open; from then on   *)
(* the user makes no call, sockets open, detectResources succeeds in       *)
(* register(), and the socket of the connected session is lost with an     *)
(* ordinary close code as long as a socket is left for the retry.          *)
(***************************************************************************)
firstConnect ==
    /\ ~hasConnectedOnce
    /\ connectCalled

firstConnectFails(s) ==
    /\ ~hasConnectedOnce
    /\ socketFails(s)

firstConnectTimeout(s) ==
    /\ ~hasConnectedOnce
    /\ connectTimeout(s)

socketLost(s) ==
    /\ Cardinality(Created(Conn)) < MaxSockets
    /\ currentState = "connected"
    /\ socket = s
    /\ socketCloses(s, CLOSE_ABNORMAL)

NextRetry ==
    \/ firstConnect
    \/ \E s \in Sockets : firstConnectFails(s)
    \/ \E s \in Sockets : firstConnectTimeout(s)
    \/ \E s \in Sockets : socketOpens(s, TRUE)
    \/ \E s \in Sockets : registerResumes(s)
    \/ \E s \in Sockets : socketLost(s)
    \/ \E d \in Delays : reconnectTimeoutFires(d)
    \/ \E i \in Sockets, detected \in BOOLEAN : heartbeatFires(i, detected)
    \/ heartbeatResumes

\* the page is hidden or shown (visibilitychange)
visibilityChanges ==
    /\ hidden' = ~hidden
    /\ UNCHANGED <<rtVars, pathVars, agentVars, socket, readyState, onclose, attempt, isConnecting,
                   shouldReconnect, hasConnectedOnce, currentState, reconnectDelay,
                   heartbeatTimer, intervals, reconnectTimers, ticks, beats, wire,
                   captured, throttled, since, ever>>

\* the Connection left to itself on a page that is hidden and shown
NextVisibility ==
    \/ NextRetry
    \/ visibilityChanges

\* the Connection left to itself, without its heartbeat, the agent reporting
\* and disconnecting
NextSend ==
    \/ firstConnect
    \/ \E s \in Sockets : firstConnectFails(s)
    \/ \E s \in Sockets : socketOpens(s, TRUE)
    \/ \E s \in Sockets : registerResumes(s)
    \/ \E s \in Sockets : socketLost(s)
    \/ \E d \in Delays : reconnectTimeoutFires(d)
    \/ disconnectCalled
    \/ \E type \in ReportTypes : sendMessageCalled(type)

\* timeouts fire, sockets open and detectResources returns
FairRetry ==
    /\ WF_vars(\E d \in Delays : reconnectTimeoutFires(d))
    /\ WF_vars(\E s \in Sockets : socketOpens(s, TRUE))
    /\ WF_vars(\E s \in Sockets : registerResumes(s))

InitRuntime ==
    /\ runningPods = <<>>
    /\ executedPodCount = 0
    /\ aborted = [e \in Execs |-> FALSE]
    /\ pc = [e \in Execs |-> "idle"]
    /\ thrown = [e \in Execs |-> NoError]
    /\ pod = [e \in Execs |-> [key |-> "", isWasi |-> FALSE, containers |-> 0]]
    /\ statuses = [e \in Execs |-> <<>>]
    /\ logs = [e \in Execs |-> <<>>]
    /\ console = 0
    /\ original = [e \in Execs |-> 0]
    /\ blobUrls = {}
    /\ deletedEarly = {}

ExecutorTask ==
    \/ \E e \in Execs, key \in PodKeys, container \in Containers :
           executePod(e, key, container)
    \/ \E e \in Execs, ok \in BOOLEAN : downloadWASMSettled(e, ok)
    \/ \E e \in Execs, ok \in BOOLEAN, blobOk \in BOOLEAN : downloadJSSettled(e, ok, blobOk)
    \/ \E e \in Execs, outcome \in WasiOutcomes : instantiateSettled(e, outcome)
    \/ \E e \in Execs, ok \in BOOLEAN : importSettled(e, ok)
    \/ \E e \in Execs, ok \in BOOLEAN, hasMain \in BOOLEAN : initSettled(e, ok, hasMain)
    \/ \E e \in Execs, ok \in BOOLEAN, hasResult \in BOOLEAN : mainSettled(e, ok, hasResult)

NextRuntime ==
    \/ ExecutorTask
    \/ \E key \in PodKeys : deletePod(key)

NextObserved ==
    \/ ExecutorTask
    \/ \E key \in PodKeys : deletePodObserved(key)

NextEarly ==
    \/ ExecutorTask
    \/ \E key \in PodKeys : deletePodEarly(key)

(***************************************************************************)
(* The Agent: it hands reportPodStatus and reportPodLog to executePod as    *)
(* onStatus and onLog, and they call sendMessage.  A rejected sendMessage   *)
(* is caught after an await, so the catch block runs as a microtask once    *)
(* the code that made the report has suspended or returned, and before any *)
(* other task.  The operators take and return a record of the Connection   *)
(* and the Agent's reports.                                                 *)
(***************************************************************************)
\* the echoes of its own error lines an interceptor forwards in a run
MaxEchoes == 2

\* the pod specs the control plane sends in a run
MaxPods == 1

Agent ==
    [conn |-> Conn, reports |-> reports, forwarded |-> forwarded,
     rejected |-> rejected]

\* try { await this.connection.sendMessage(message) } up to the await
reportPodStatus(a, e, status) ==
    LET sent == sendMessageCall(a.conn, "pod_status")
    IN  IF sent.threw = ""
        THEN [a EXCEPT !.conn = sent.conn, !.reports[e] = Append(@, status)]
        ELSE [a EXCEPT !.rejected["pod_status"] = @ + 1]

reportPodLog(a, e, log) ==
    LET sent == sendMessageCall(a.conn, "pod_logs")
    IN  IF sent.threw = ""
        THEN [a EXCEPT !.conn = sent.conn]
        ELSE [a EXCEPT !.rejected["pod_logs"] = @ + 1]

\* one call of a callback of the pod of call e; a call made by an
\* interceptor is a call of the onLog that interceptor was given
callback(a, e, call) ==
    IF call.type = "pod_status" THEN reportPodStatus(a, e, call.data)
    ELSE IF call.by = 0 THEN reportPodLog(a, e, call.data)
    ELSE reportPodLog([a EXCEPT !.forwarded[call.by] = Append(@, call.data)],
                      call.by, call.data)

RECURSIVE callbacks(_, _, _)
callbacks(a, e, calls) ==
    IF calls = <<>> THEN a
    ELSE callbacks(callback(a, e, Head(calls)), e, Tail(calls))

CommitAgent(a) ==
    /\ wire' = a.conn.wire
    /\ reports' = a.reports
    /\ forwarded' = a.forwarded
    /\ rejected' = a.rejected
    /\ UNCHANGED <<socket, readyState, onclose, attempt, isConnecting,
                   shouldReconnect, hasConnectedOnce, currentState, reconnectDelay,
                   heartbeatTimer, intervals, reconnectTimers, ticks, beats, hidden,
                   captured, throttled, since, ever, pathVars>>

\* no catch block is waiting to run
NoMicrotask == \A type \in ReportTypes : rejected[type] = 0

\* Agent.handlePodSpec: a pod_spec message arrives on the open socket, on
\* which the agent has registered, and executePod runs to its first await
handlePodSpec(e, key, container) ==
    /\ NoMicrotask
    /\ socketIsOpen(Conn)
    /\ onclose[socket]
    /\ \E i \in DOMAIN wire[socket] : wire[socket][i] = "register"
    /\ e <= MaxPods
    /\ pc[e] = "idle"
    /\ \A d \in Execs : d < e => pc[d] # "idle"
    /\ executedPodCount' = executedPodCount + 1
    /\ pod' = [pod EXCEPT ![e] = [key |-> key, isWasi |-> isWasiOf(container),
                                  containers |-> IF container.has THEN 1 ELSE 0]]
    /\ LET f == executePodStart(Frame(e), key, container)
       IN  /\ Commit(e, f)
           /\ CommitAgent(callbacks(Agent, e, f.calls))
    /\ UNCHANGED aborted

\* what the call does when the promise it awaits settles
Resumed(e, ok, blobOk, outcome, hasMain, hasResult) ==
    CASE pc[e] = "downloadWASM" -> afterDownloadWASM(Frame(e), e, ok)
      [] pc[e] = "downloadJS" -> afterDownloadJS(Frame(e), e, ok, blobOk)
      [] pc[e] = "instantiate" -> afterInstantiate(Frame(e), e, outcome)
      [] pc[e] = "import" -> afterImport(Frame(e), e, ok)
      [] pc[e] = "init" -> afterInit(Frame(e), e, ok, hasMain)
      [] pc[e] = "main" -> afterMain(Frame(e), e, ok, hasResult)

\* of the ways the awaited promises can settle, the one read at this await
\* varies and the others are fixed
SettlesAs(e, ok, blobOk, outcome, hasMain, hasResult) ==
    /\ pc[e] = "instantiate" => ok
    /\ pc[e] # "instantiate" => outcome = [kind |-> "exits", code |-> 0]
    /\ pc[e] # "downloadJS" => blobOk
    /\ pc[e] # "init" => hasMain
    /\ pc[e] # "main" => hasResult

\* a call of executePod resumes, its callbacks being the Agent's
executePodResumes(e) ==
    /\ NoMicrotask
    /\ pc[e] \in {"downloadWASM", "downloadJS", "instantiate", "import", "init",
                  "main"}
    /\ \E ok \in BOOLEAN, blobOk \in BOOLEAN, outcome \in WasiOutcomes,
          hasMain \in BOOLEAN, hasResult \in BOOLEAN :
          /\ SettlesAs(e, ok, blobOk, outcome, hasMain, hasResult)
          /\ LET f == Resumed(e, ok, blobOk, outcome, hasMain, hasResult)
             IN  /\ Commit(e, f)
                 /\ CommitAgent(callbacks(Agent, e, f.calls))
    /\ UNCHANGED <<executedPodCount, aborted, pod>>

\* the catch block of reportPodStatus or reportPodLog runs: console.error
\* with the failure line, through whatever is installed as console.error
reportCatch(type) ==
    /\ rejected[type] > 0
    /\ LET calls == interceptLog(original, console, FailedLine(type))
       IN  /\ \A i \in 1..Len(calls) :
                 Len(SelectSeq(forwarded[calls[i].by],
                               LAMBDA line : line = calls[i].data)) < MaxEchoes
           /\ CommitAgent(callbacks([Agent EXCEPT !.rejected[type] = @ - 1], 0, calls))
    /\ UNCHANGED rtVars

\* the tasks of the Connection while the Agent runs pods
connectionTask ==
    /\ NoMicrotask
    /\ \/ firstConnect
       \/ \E s \in Sockets : socketOpens(s, TRUE)
       \/ \E s \in Sockets : registerResumes(s)
       \/ \E s \in Sockets : socketLost(s)
       \/ \E d \in Delays : reconnectTimeoutFires(d)

NextAgent ==
    \/ \E e \in Execs, key \in PodKeys, container \in Containers :
           handlePodSpec(e, key, container)
    \/ \E e \in Execs : executePodResumes(e)
    \/ \E type \in ReportTypes : reportCatch(type)
    \/ connectionTask

\* the Agent as constructed: nothing reported yet
InitAgent ==
    /\ reports = [e \in Execs |-> <<>>]
    /\ forwarded = [e \in Execs |-> <<>>]
    /\ rejected = [type \in ReportTypes |-> 0]

Init == InitRuntime /\ InitConnection /\ InitPath /\ InitAgent

Next == NextRuntime

\* the Execution Engine
Spec == Init /\ [][Next]_vars

\* the Execution Engine with early deletions observed
SpecObserved == Init /\ [][NextObserved]_vars

\* the Execution Engine with deletions during the downloads only
SpecEarly == Init /\ [][NextEarly]_vars

\* the Agent running pods over its Connection
SpecAgent == Init /\ [][NextAgent]_vars

\* the executors called on their own
InitDirect == InitExecutors /\ InitConnection /\ InitPath /\ InitAgent

SpecExecutors == InitDirect /\ [][NextExecutors]_vars

\* the Connection left to itself, with fairness
SpecRetry == Init /\ [][NextRetry]_vars /\ FairRetry

\* the Connection with the agent's reports
SpecSend == Init /\ [][NextSend]_vars

\* executePod of src/src/runtime.ts finding its module path
SpecPath == Init /\ [][NextPath]_vars

\* the Connection on a page that is hidden and shown
SpecVisibility == Init /\ [][NextVisibility]_vars

\* the Connection
SpecConnection == Init /\ [][NextConnection]_vars

\* the delay a session has after three automatic retries
LateReconnectDelay == 8 * InitialReconnectDelay

\* a Connection just constructed, or one that has retried three times and
\* was then stopped with disconnect(), all its callbacks having run:
\* disconnect() leaves every field as the constructor does except
\* shouldReconnect, which it clears, and reconnectDelay, which it keeps
InitBackoff ==
    /\ reconnectDelay \in {InitialReconnectDelay, LateReconnectDelay}
    /\ shouldReconnect = (reconnectDelay = InitialReconnectDelay)
    /\ socket = 0
    /\ readyState = [s \in Sockets |-> "none"]
    /\ onclose = [s \in Sockets |-> FALSE]
    /\ attempt = [s \in Sockets |-> "none"]
    /\ isConnecting = FALSE
    /\ hasConnectedOnce = FALSE
    /\ currentState = "disconnected"
    /\ heartbeatTimer = 0
    /\ intervals = {}
    /\ reconnectTimers = [d \in Delays |-> 0]
    /\ ticks = 0
    /\ beats = 0
    /\ wire = [s \in Sockets |-> <<>>]
    /\ hidden = FALSE
    /\ captured = [b \in BOOLEAN |-> 0]
    /\ throttled = <<>>
    /\ since = {}
    /\ ever = FALSE

\* the Connection, fresh or late in its backoff
InitLate == InitRuntime /\ InitBackoff /\ InitPath /\ InitAgent

\* interval i fires when the socket is gone or no longer open: the only
\* interval callback that assigns a field of the Connection
heartbeatStops(i) ==
    /\ ~socketIsOpen(Conn)
    /\ heartbeatFires(i, TRUE)

\* the Connection as far as the reconnect delay goes: the heartbeats that only
\* write to an open socket are left out
NextBackoff ==
    \/ connectCalled
    \/ disconnectCalled
    \/ \E s \in Sockets, detected \in BOOLEAN : socketOpens(s, detected)
    \/ \E s \in Sockets : socketFails(s)
    \/ \E s \in Sockets, code \in CloseCodes : socketCloses(s, code)
    \/ \E s \in Sockets : connectTimeout(s)
    \/ \E s \in Sockets : registerResumes(s)
    \/ \E d \in Delays : reconnectTimeoutFires(d)
    \/ \E i \in Sockets : heartbeatStops(i)

SpecBackoff == InitLate /\ [][NextBackoff]_vars

(***************************************************************************)
(* Properties of the Execution Engine.                                     *)
(***************************************************************************)
Last(seq) == seq[Len(seq)]

Phases(e) == [i \in 1..Len(statuses[e]) |-> statuses[e][i].phase]

Downloading(e) == pc[e] \in {"downloadWASM", "downloadJS"}

Executing(e) == pc[e] \in {"instantiate", "import", "init", "main"}

InFlight(e) == Downloading(e) \/ Executing(e)

\* errors thrown before the executor is dispatched
EarlyErrors == {ErrNoContainers, ErrMissingPath, ErrDownloadWASM, ErrGlue(ErrDownloadJS)}

\* C1: executePod never rejects; a call that has returned has emitted at
\* least one status, and whenever an error was thrown inside it (no
\* containers, missing path, download failures, executor errors, non-zero
\* exit, cancellation) the last status it emitted is Failed and carries that
\* error.
C1_ExecutePodNeverThrows ==
    \A e \in Execs :
        /\ pc[e] # "rejected"
        /\ pc[e] = "returned" =>
              /\ Len(statuses[e]) >= 1
              /\ Last(statuses[e]).phase \in {"Succeeded", "Failed"}
              /\ thrown[e] # NoError =>
                    /\ Last(statuses[e]).phase = "Failed"
                    /\ \A i \in 1..Len(thrown[e].message) :
                           Contains(Last(statuses[e]).message, thrown[e].message[i])

\* C1 witness: one call ended by cancellation and another by a glue
\* download failure, both returned.
C1_Witness ==
    \E e, d \in Execs :
        /\ pc[e] = "returned" /\ thrown[e] = ErrAborted
        /\ pc[d] = "returned" /\ thrown[d] = ErrGlue(ErrDownloadJS)

\* C2 as stated: every call delivers Pending, Running and one terminal
\* status, no phase skipped.
C2_NoPhaseSkipped ==
    \A e \in Execs :
        pc[e] = "returned" =>
            Phases(e) \in {<<"Pending", "Running", "Succeeded">>,
                           <<"Pending", "Running", "Failed">>}

\* C2 amended: the statuses of a call are delivered in the order Pending,
\* Running, then exactly one of Succeeded or Failed, never out of order;
\* Running is skipped exactly when the call fails before the executor is
\* dispatched, and then the sequence is Pending, Failed.
C2_StatusOrder ==
    \A e \in Execs :
        /\ pc[e] = "idle" => Phases(e) = <<>>
        /\ Downloading(e) => Phases(e) = <<"Pending">>
        /\ Executing(e) => Phases(e) = <<"Pending", "Running">>
        /\ pc[e] = "returned" =>
              IF thrown[e] \in EarlyErrors
              THEN Phases(e) = <<"Pending", "Failed">>
              ELSE Phases(e) \in {<<"Pending", "Running", "Succeeded">>,
                                  <<"Pending", "Running", "Failed">>}

\* C2 witness: one call returned after Pending, Failed and another after
\* Pending, Running, Succeeded.
C2_Witness ==
    \E e, d \in Execs :
        /\ pc[e] = "returned" /\ Phases(e) = <<"Pending", "Failed">>
        /\ pc[d] = "returned" /\ Phases(d) = <<"Pending", "Running", "Succeeded">>

\* C5: the task in which an executePod call returns leaves no entry for
\* that call's key in the running-pod map, and whenever no call is in
\* flight getRunningPodCount() is 0.
C5_NoEntryAfterReturn ==
    /\ []((\A e \in Execs : ~InFlight(e)) => getRunningPodCount = 0)
    /\ [][\A e \in Execs :
             (pc[e] # "returned" /\ pc'[e] = "returned")
                 => ~MapHas(runningPods', pod'[e].key)]_vars

\* C5 witness: two calls for the same key both reached Running and both
\* returned, and the map is empty.
C5_Witness ==
    /\ \A e \in Execs : pc[e] = "returned" /\ Len(statuses[e]) = 3
    /\ \A e, d \in Execs : pod[e].key = pod[d].key
    /\ getRunningPodCount = 0

\* C7: a deletePod for a key that has an entry signals that entry's token
\* and removes that entry; every other entry and every other token is as
\* it was.
C7_DeleteSignalsAndRemovesOnlyThatEntry ==
    [][\A k \in PodKeys :
          (deletePod(k) /\ MapHas(runningPods, k))
              => /\ aborted'[runningPods[k]]
                 /\ ~MapHas(runningPods', k)
                 /\ DOMAIN runningPods' = (DOMAIN runningPods) \ {k}
                 /\ \A j \in DOMAIN runningPods' : runningPods'[j] = runningPods[j]
                 /\ \A e \in Execs : e # runningPods[k] => aborted'[e] = aborted[e]
                 /\ UNCHANGED <<executedPodCount, pc, thrown, pod, statuses, logs,
                                console, original, blobUrls>>
                 /\ ~deletePodResult(runningPods, aborted, k).threw]_vars

\* C7 witness: deletePod has hit the entry of a call that is still
\* executing, its token is signalled and its key is gone, while another key
\* still holds its entry with an unsignalled token.
C7_Witness ==
    /\ \E e \in Execs : aborted[e] /\ Executing(e) /\ ~MapHas(runningPods, podKey(e))
    /\ \E j \in DOMAIN runningPods : ~aborted[runningPods[j]]

\* C8: in every state, deletePod for a key without an entry does not throw
\* and returns the map and the tokens as they are; and the step of such a
\* call changes neither the map nor a token nor any execution.
C8_DeleteUnknownIsNoOp ==
    /\ [](\A k \in PodKeys :
             ~MapHas(runningPods, k)
                 => LET r == deletePodResult(runningPods, aborted, k)
                    IN  /\ ~r.threw
                        /\ r.runningPods = runningPods
                        /\ r.aborted = aborted)
    /\ [][\A k \in PodKeys :
             (deletePodCall(k) /\ ~MapHas(runningPods, k))
                 => UNCHANGED <<runningPods, aborted, executedPodCount, pc, thrown,
                                pod, statuses, logs, console, original, blobUrls>>]_vars

\* C8 witness: the key of a call that is downloading its module has no
\* entry while another pod is registered; a deletePod for that key is the
\* step that leaves this state as it is.
C8_Witness ==
    /\ \E e \in Execs : Downloading(e) /\ ~MapHas(runningPods, podKey(e))
    /\ getRunningPodCount = 1

\* C9: a call for a pod with an empty container list returns having
\* emitted exactly Pending, Failed, the Failed message naming "No
\* containers specified", and no entry of the running-pod map ever belongs
\* to such a call.
C9_EmptyContainerList ==
    /\ \A e \in Execs :
          (pc[e] # "idle" /\ pod[e].containers = 0)
              => /\ pc[e] = "returned"
                 /\ Phases(e) = <<"Pending", "Failed">>
                 /\ Contains(statuses[e][2].message, "No containers specified")
    /\ \A k \in DOMAIN runningPods : pod[runningPods[k]].containers > 0

\* C9 witness: a call for a pod without containers has returned while
\* another call is registered.
C9_Witness ==
    /\ \E e \in Execs : pc[e] = "returned" /\ pod[e].containers = 0
    /\ getRunningPodCount = 1

\* C10 as stated: a call whose key was passed to deletePod while its module
\* download was pending ends with Failed, "Execution aborted", and the
\* running-pod count is zero once nothing is in flight.
C10_EarlyDeleteAborts ==
    /\ \A e \in Execs :
          (pc[e] = "returned" /\ e \in deletedEarly)
              => /\ Last(statuses[e]).phase = "Failed"
                 /\ Contains(Last(statuses[e]).message, "Execution aborted")
    /\ (\A e \in Execs : ~InFlight(e)) => getRunningPodCount = 0

\* C11: a deletePod changes no call's position, statuses or logs, so it
\* is felt only where an executor reads the token; and when the token was
\* signalled while main was running and main returns normally, the call
\* returns with Succeeded as its last status.
C11_CancellationIsCooperative ==
    /\ [][\A k \in PodKeys :
             deletePod(k) => UNCHANGED <<pc, thrown, statuses, logs>>]_vars
    /\ [][\A e \in Execs :
             (pc[e] = "main" /\ aborted[e]
                  /\ \E hasResult \in BOOLEAN : mainSettled(e, TRUE, hasResult))
                 => /\ pc'[e] = "returned"
                    /\ Last(statuses'[e]) = StatusSucceeded]_vars

\* C11 witness: a call returned with Succeeded although its token is
\* signalled
C11_Witness ==
    \E e \in Execs :
        /\ pc[e] = "returned"
        /\ aborted[e]
        /\ ~isWasi(e)
        /\ Last(statuses[e]) = StatusSucceeded

\* C12: an executor called with its token signalled rejects with
\* 'Execution aborted' in the call itself, before the import or the
\* instantiation is awaited; an executor whose token is signalled when the
\* instantiation (WASI) or the initialisation (wasm-bindgen) has succeeded
\* rejects with 'Execution aborted' without awaiting main and without the
\* log line that follows start.
C12_CheckedBeforeAndAfter ==
    [][\A e \in Execs :
          /\ (aborted[e] /\ (executeWASI(e) \/ executeWASM(e, TRUE)))
                 => /\ pc'[e] = "rejected"
                    /\ thrown'[e] = ErrAborted
          /\ (aborted[e] /\ \E outcome \in WasiOutcomes :
                                /\ outcome.kind # "instantiateRejects"
                                /\ instantiateReturns(e, outcome))
                 => /\ pc'[e] = "rejected"
                    /\ thrown'[e] = ErrAborted
                    /\ logs'[e] = logs[e]
          /\ (aborted[e] /\ \E hasMain \in BOOLEAN : initReturns(e, TRUE, hasMain))
                 => /\ pc'[e] = "rejected"
                    /\ thrown'[e] = ErrAborted
                    /\ logs'[e] = logs[e]]_vars

\* C12 witness: a WASI call and a wasm-bindgen call have both rejected with
\* 'Execution aborted'
C12_Witness ==
    \E e, d \in Execs :
        /\ pc[e] = "rejected" /\ thrown[e] = ErrAborted /\ isWasi(e)
        /\ pc[d] = "rejected" /\ thrown[d] = ErrAborted /\ ~isWasi(d)

(***************************************************************************)
(* Properties of the Connection.                                           *)
(***************************************************************************)
\* a reconnect timeout was set in the step
ReconnectScheduled ==
    \E d \in Delays : reconnectTimers'[d] > reconnectTimers[d]

\* a socket was created in the step: a connection attempt started
AttemptStarted == Created(Conn)' # Created(Conn)

\* a message was written to a socket in the step
MessageWritten == wire' # wire

\* C3: a close with the duplicate-identity code leaves the session
\* disconnected at once, and from that close until the next explicit
\* connect() the state is never reconnecting (nor anything but
\* disconnected), no reconnect timeout is set and no attempt starts.
C3_DuplicateCloseGoesStraightToDisconnected ==
    [][("duplicate" \in since') =>
          /\ currentState' = "disconnected"
          /\ ~ReconnectScheduled
          /\ ~AttemptStarted]_vars

\* a registered session that was reconnecting-enabled has been closed with
\* the duplicate-identity code
C3_Witness ==
    /\ "duplicate" \in since
    /\ hasConnectedOnce
    /\ \E s \in Sockets : readyState[s] = "CLOSED" /\ onclose[s] /\ wire[s] # <<>>

\* C4 as stated: once the duplicate-identity close or disconnect() has
\* happened, shouldReconnect is never true again, whatever follows.
C4_NeverReenabled == ever => ~shouldReconnect

\* C4: from the duplicate-identity close or disconnect() until the next
\* explicit connect() call, shouldReconnect is false and no connection
\* attempt starts.
C4_DisabledUntilExplicitConnect ==
    /\ [](since # {} => ~shouldReconnect)
    /\ [][since' # {} => ~AttemptStarted]_vars

\* reconnection is disabled while a reconnect timeout set earlier is still
\* pending
C4_Witness ==
    /\ since # {}
    /\ ~shouldReconnect
    /\ \E d \in Delays : reconnectTimers[d] > 0

\* C6: from disconnect() until the next explicit connect() the state is
\* disconnected, no attempt starts, nothing is written to a socket and no
\* heartbeat interval is active.
C6_QuietAfterDisconnect ==
    /\ []("disconnect" \in since =>
             /\ currentState = "disconnected"
             /\ heartbeatTimer = 0
             /\ intervals = {})
    /\ [][("disconnect" \in since /\ "disconnect" \in since') =>
             /\ ~AttemptStarted
             /\ ~MessageWritten]_vars

\* C6 without the intervals
C6_QuietExceptIntervals ==
    /\ []("disconnect" \in since =>
             /\ currentState = "disconnected"
             /\ heartbeatTimer = 0)
    /\ [][("disconnect" \in since /\ "disconnect" \in since') =>
             /\ ~AttemptStarted
             /\ ~MessageWritten]_vars

\* C13: when the socket of an attempt fails to open, by its error event or
\* by the 10 second timeout, while hasConnectedOnce is false (as it is until
\* a socket has opened), the connect() call of that attempt rejects and no
\* reconnect timeout is set.
C13_FirstFailureRejects ==
    [][\A s \in Sockets :
          (attempt[s] = "opening" /\ ~hasConnectedOnce
               /\ (socketFails(s) \/ connectTimeout(s)))
              => /\ attempt'[s] = "rejected"
                 /\ ~ReconnectScheduled]_vars

\* C13 witness: the first attempt of a session was rejected, nothing has
\* ever opened and no reconnect timeout is pending
C13_Witness ==
    /\ attempt[1] = "rejected"
    /\ ~hasConnectedOnce /\ ~ever
    /\ \A s \in Sockets : readyState[s] \in {"none", "FAILING", "CLOSED"}
    /\ \A d \in Delays : reconnectTimers[d] = 0

\* an attempt that was in flight has settled in the step
Settles(s, how) == attempt[s] \in {"opening", "registering"} /\ attempt'[s] = how

\* C14 as stated: once a connection has succeeded, its socket opened and
\* its register message sent, no connect() call rejects any more.
C14_NoRejectionAfterFirstOpen ==
    [][\A s \in Sockets :
          (\E t \in Sockets : attempt[t] = "resolved" /\ wire[t] # <<>>)
              => ~Settles(s, "rejected")]_vars

\* C14: a connect() call rejects only while shouldReconnect is false or
\* hasConnectedOnce is false, which onopen sets and disconnect() clears;
\* an attempt that fails while both are true resolves its connect() call
\* and sets a reconnect timeout.
C14_RejectsOnlyWithoutRetry ==
    [][\A s \in Sockets :
          /\ Settles(s, "rejected") => ~(shouldReconnect' /\ hasConnectedOnce')
          /\ (Settles(s, "resolved") /\ ~MessageWritten)
                 => /\ shouldReconnect' /\ hasConnectedOnce'
                    /\ ReconnectScheduled]_vars

\* C14 witness: after a registered connection was lost, the retry failed,
\* its connect() call resolved and a reconnect timeout is pending
C14_Witness ==
    /\ attempt[1] = "resolved" /\ wire[1] = <<"register">>
    /\ attempt[2] = "resolved" /\ wire[2] = <<>> /\ readyState[2] = "CLOSED"
    /\ shouldReconnect /\ hasConnectedOnce
    /\ \E d \in Delays : reconnectTimers[d] > 0

\* C15: when detectResources throws in the register() of an attempt, the
\* connect() call of that attempt rejects and no reconnect timeout is set.
C15_DetectionFailureIsThrown ==
    [][\A s \in Sockets :
          (attempt[s] = "opening" /\ socket # 0 /\ socketOpens(s, FALSE))
              => /\ attempt'[s] = "rejected"
                 /\ ~ReconnectScheduled]_vars

\* C16: when the socket of a connected session closes with a code other
\* than the duplicate-identity code while shouldReconnect is true, the
\* state becomes reconnecting, the heartbeat interval is cleared and one
\* reconnect timeout is set with the current reconnectDelay.
C16_UnexpectedCloseSchedulesReconnect ==
    [][\A s \in Sockets :
          (currentState = "connected" /\ socket = s /\ shouldReconnect
               /\ socketCloses(s, CLOSE_ABNORMAL))
              => /\ currentState' = "reconnecting"
                 /\ socket' = 0
                 /\ heartbeatTimer' = 0
                 /\ reconnectDelay' = reconnectDelay
                 /\ reconnectTimers' =
                        [reconnectTimers EXCEPT ![reconnectDelay] = @ + 1]]_vars

\* C16 witness: the first, registered connection was closed and the session
\* is reconnecting with one timeout pending at the first delay
C16_Witness ==
    /\ currentState = "reconnecting"
    /\ attempt[1] = "resolved" /\ wire[1] # <<>> /\ readyState[1] = "CLOSED"
    /\ attempt[2] = "none"
    /\ shouldReconnect
    /\ reconnectTimers[InitialReconnectDelay] = 1

\* the state changes of a retry: reconnecting is left only for connecting,
\* and disconnected is not entered
RetryStateChange ==
    /\ (currentState = "reconnecting")
          => (currentState' \in {"reconnecting", "connecting"})
    /\ (currentState # "disconnected") => (currentState' # "disconnected")

\* C17: left to itself, a session that is reconnecting becomes connected
\* again, and on the way the state leaves reconnecting only for connecting
\* and is never disconnected.
C17_ReconnectsWithoutUser ==
    /\ (currentState = "reconnecting") ~> (currentState = "connected")
    /\ [][RetryStateChange]_vars

\* C17 witness: the second socket, created by a reconnect timeout, carries
\* a registered connection after the first one was lost
C17_Witness ==
    /\ currentState = "connected"
    /\ readyState[1] = "CLOSED" /\ wire[1] # <<>>
    /\ socket = 2 /\ readyState[2] = "OPEN" /\ wire[2] # <<>>

\* one step of the session, as far as the reconnect delay goes
BackoffStep ==
    /\ \A d \in Delays :
          (reconnectTimeoutFires(d) /\ shouldReconnect)
              => (reconnectDelay' = Min(2 * reconnectDelay, maxReconnectDelay))
    /\ (reconnectDelay' # reconnectDelay)
          => (/\ shouldReconnect
              /\ \E d \in Delays : reconnectTimeoutFires(d)
              /\ reconnectDelay' = Min(2 * reconnectDelay, maxReconnectDelay))
    /\ reconnectDelay' >= reconnectDelay

\* C18: reconnectDelay lies between 200 and the cap; a reconnect timeout
\* that fires with shouldReconnect true sets it to min(2 * delay, cap); no
\* other step changes it, in particular not a step that makes the session
\* connected; so it never decreases.
C18_BackoffDelay ==
    /\ [](InitialReconnectDelay <= reconnectDelay /\ reconnectDelay <= maxReconnectDelay)
    /\ [][BackoffStep]_vars

\* C18 witness: the session is connected after retries and the delay has
\* stayed where the retries left it
C18_Witness ==
    /\ currentState = "connected"
    /\ reconnectDelay = maxReconnectDelay

\* the number of register messages written to socket s
Registers(s) == Cardinality({i \in DOMAIN wire[s] : wire[s][i] = "register"})

\* C19: on every socket that carries a message the first message is a
\* register message and it is the only register message on that socket, and
\* the session is connected only when its socket has carried one.
C19_OneRegisterPerConnection ==
    /\ \A s \in Sockets :
          wire[s] # <<>> => (wire[s][1] = "register" /\ Registers(s) = 1)
    /\ (currentState = "connected" /\ socket # 0) => Registers(socket) = 1

\* the heartbeat messages written to any socket
HeartbeatsSent ==
    UNION {{<<s, i>> : i \in {j \in DOMAIN wire[s] : wire[s][j] = "heartbeat"}} :
           s \in Sockets}

\* a tick whose detection fails, and a tick whose send fails
HeartbeatFailureStep ==
    /\ \A i \in Sockets :
          (heartbeatFires(i, FALSE) /\ socketIsOpen(Conn))
              => (/\ i \in intervals'
                  /\ UNCHANGED <<intervals, heartbeatTimer, currentState>>)
    /\ (heartbeatResumes /\ ~socketIsOpen(Conn))
          => UNCHANGED <<intervals, heartbeatTimer, currentState, wire>>

\* C20: a heartbeat tick whose resource detection fails, and one whose send
\* fails because the socket is no longer open, leave the set of active
\* intervals, the heartbeat timer and the connection state as they were; the
\* interval that fired stays active for its next tick.
C20_HeartbeatFailuresAreNotFatal == [][HeartbeatFailureStep]_vars

\* C20 witness: a tick has failed to send (more ticks ran than are
\* suspended or have written a heartbeat) and an interval is still active
C20_Witness ==
    /\ beats > ticks + Cardinality(HeartbeatsSent)
    /\ intervals # {}

\* the session holds no open transport: no socket, a socket that is not
\* open, or a session that is disconnected or waiting to reconnect
NoOpenTransport ==
    \/ socket = 0
    \/ readyState[socket] # "OPEN"
    \/ currentState \in {"disconnected", "reconnecting"}

\* C21: in every state where the session holds no open transport (never
\* connected, socket still opening, reconnecting, disconnected) a call of
\* sendMessage rejects with "Not connected" and leaves the session, the
\* written messages included, as it was; in every other state it does not
\* reject and appends the message to the session's socket, changing
\* nothing else.
C21_SendMessageNeedsOpenSocket ==
    \A type \in ReportTypes :
        LET r == sendMessageCall(Conn, type)
        IN  IF NoOpenTransport
            THEN /\ r.threw = ErrNotConnected
                 /\ r.conn = Conn
            ELSE /\ r.threw = ""
                 /\ r.conn = [Conn EXCEPT !.wire[socket] = Append(@, type)]

\* C21 witness: a report was written while the socket was open, and the
\* session, now reconnecting with a socket still opening, holds no open one
C21_Witness ==
    /\ ReportsSent # {}
    /\ socket # 0
    /\ readyState[socket] = "CONNECTING"
    /\ hasConnectedOnce

GlueFragment == "Failed to download JS glue for bindgen module: "

\* the task in which the glue download of call e is rejected
GlueDownloadFails(e) == \E blobOk \in BOOLEAN : downloadJSSettled(e, FALSE, blobOk)

\* what that task does
GlueFailureStep ==
    \A e \in Execs :
        GlueDownloadFails(e)
            => (/\ pc'[e] = "returned"
                /\ Phases(e)' = <<"Pending", "Failed">>
                /\ Contains(Last(statuses'[e]).message, GlueFragment)
                /\ \A k \in DOMAIN runningPods' : runningPods'[k] # e
                /\ UNCHANGED <<console, original, blobUrls, logs, aborted>>)

\* C22: only a wasm-bindgen call waits for the glue script; when that
\* download is rejected the call returns in the same task with the statuses
\* Pending, Failed, the Failed message containing 'Failed to download JS glue
\* for bindgen module', and the module is not executed: no Running status,
\* no entry of its own in the running-pod map, no blob URL, console
\* untouched, no log.
C22_GlueFailureFailsPod ==
    /\ [](\A e \in Execs : pc[e] = "downloadJS" => ~isWasi(e))
    /\ [][GlueFailureStep]_vars

\* C22 witness: a wasm-bindgen call has returned with the glue error
C22_Witness ==
    \E e \in Execs :
        /\ pc[e] = "returned"
        /\ ~isWasi(e)
        /\ Last(statuses[e]).phase = "Failed"
        /\ Contains(Last(statuses[e]).message, GlueFragment)

\* a container with an explicit wasm.path and no wasm.type
UntypedContainer == [has |-> TRUE, path |-> TRUE, type |-> ""]

\* a call for such a container starts the module download in WASI mode
UntypedStartStep ==
    \A e \in Execs, key \in PodKeys :
        executePod(e, key, UntypedContainer)
            => (pod'[e].isWasi /\ pc'[e] = "downloadWASM")

ExitLogLine(code) == <<"WASI execution completed with exit code: ", NumberToString(code)>>

\* the task in which wasi.start of call e returns code
StartReturns(e, code) ==
    /\ ~aborted[e]
    /\ instantiateSettled(e, [kind |-> "exits", code |-> code])

\* what that task does
ExitCodeStep ==
    \A e \in Execs, code \in ExitCodes :
        StartReturns(e, code)
            => (/\ logs'[e] = Append(logs[e], ExitLogLine(code))
                /\ pc'[e] = "returned"
                /\ statuses'[e] = Append(statuses[e],
                       IF code = 0 THEN StatusSucceeded
                       ELSE StatusFailed(NewError(<<"Process exited with code ",
                                                    NumberToString(code)>>))))

\* C24: when wasi.start returns, the log callback receives the exit-code
\* line; with code 0 the call ends with Succeeded, with any other code N it
\* ends with Failed and the message `Execution error: Error: Process exited
\* with code N`.
C24_ExitCodeDecides == [][ExitCodeStep]_vars

\* C24 witness: a call has logged a non-zero exit code and ended Failed
C24_Witness ==
    \E e \in Execs, code \in ExitCodes \ {0} :
        /\ pc[e] = "returned"
        /\ logs[e] # <<>>
        /\ Last(logs[e]) = ExitLogLine(code)
        /\ Last(statuses[e]) = StatusFailed(ErrExit(code))

\* the requests of the call for the module itself
ModuleRequests == {i \in DOMAIN requests : requests[i].file = "wasm"}

\* C25 as stated: a call whose container supplies an explicit wasm.path
\* never requests pkg/package.json, and the path it requests the module
\* with is the supplied one.
C25_DiscoveryOnlyWithoutPath ==
    (step # "idle" /\ podSpec.has /\ podSpec.path # NoPath)
        => /\ \A i \in DOMAIN requests : requests[i].path # ManifestPath
           /\ \A i \in ModuleRequests : requests[i].path = podSpec.path

\* the last path segment of an image reference before any tag
LastSegment(image) ==
    LET slashes == {i \in DOMAIN image : image[i] = "/"}
        from    == IF slashes = {} THEN 1
                   ELSE 1 + CHOOSE i \in slashes : \A j \in slashes : j <= i
        colons  == {i \in from..Len(image) : image[i] = ":"}
        to      == IF colons = {} THEN Len(image)
                   ELSE (CHOOSE i \in colons : \A j \in colons : i <= j) - 1
    IN  SubSeq(image, from, to)

ExpectedFallback(image) ==
    <<"pkg/">> \o [i \in DOMAIN LastSegment(image) |->
                     IF LastSegment(image)[i] = "-" THEN "_" ELSE LastSegment(image)[i]]
              \o <<"_bg.wasm">>

DiscoveryFailed == manifest.kind \in {"rejects", "malformed", "null", "noMain", "mainNotString"}

\* C26 as stated: when the container supplies no path and the discovery
\* has failed (download error, malformed JSON, no usable main field), the
\* call has not failed at that point and requests the module with the path
\* pkg/<last image segment before the tag, dashes as underscores>_bg.wasm.
C26_DiscoveryFailureFallsBack ==
    (podSpec.has /\ podSpec.path = NoPath /\ DiscoveryFailed)
        => /\ step = "downloadWASM" => reported = <<"Pending">>
           /\ \A i \in ModuleRequests : requests[i].path = ExpectedFallback(podSpec.image)

\* C27 as stated: the isThrottled flag of every heartbeat written is
\* document.hidden as it is when the heartbeat is written.
C27_ThrottledAtSendTime ==
    [][Len(throttled') > Len(throttled) => Last(throttled') = hidden]_vars

\* C28 as stated: while a call is between its Running status and its
\* terminal status and has not been signalled, the running-pod map holds
\* that call's own controller under the call's key (so that a deletePod for
\* the key signals it), whatever other calls do.
C28_OwnTokenWhileRunning ==
    \A e \in Execs :
        (Executing(e) /\ ~aborted[e])
            => /\ MapHas(runningPods, podKey(e))
               /\ runningPods[podKey(e)] = e

\* map m2 is map m1 without key k
Removed(m1, m2, k) ==
    /\ DOMAIN m2 = DOMAIN m1 \ {k}
    /\ \A x \in DOMAIN m2 : m2[x] = m1[x]

\* a deletePod, and the end of an execution, in either order
RemovalStep ==
    /\ \A k \in PodKeys :
          deletePod(k) => Removed(runningPods, runningPods', k)
    /\ \A e \in Execs :
          (Executing(e) /\ ~Executing(e)')
              => /\ pc'[e] = "returned"
                 /\ Removed(runningPods, runningPods', podKey(e))

\* C29: deletePod and the end of an execution each leave the map without
\* the key and with every other entry as it was, and neither throws,
\* whether the entry is still there or the other one has removed it.
C29_RemovalIsIdempotent ==
    /\ [](\A k \in PodKeys :
             ~deletePodResult(runningPods, aborted, k).threw)
    /\ [][RemovalStep]_vars

\* C29 witness: an execution ended after deletePod had removed its entry,
\* and the entry of the other key is still there
C29_Witness ==
    \E e \in Execs :
        /\ pc[e] = "returned"
        /\ aborted[e]
        /\ \E k \in DOMAIN runningPods : k # podKey(e)

\* the delays for which a reconnect timeout is pending
PendingDelays == {d \in Delays : reconnectTimers[d] > 0}

\* C30 as stated: at most one reconnect timeout is pending at any time.
C30_OneReconnectTimer ==
    /\ Cardinality(PendingDelays) <= 1
    /\ \A d \in Delays : reconnectTimers[d] <= 1

\* a close event is delivered to the onclose handler of a socket while
\* this.socket is another socket; the session keeps its socket, heartbeat,
\* state and timeouts
StaleCloseStep ==
    \A s \in Sockets :
        (/\ socket # 0
         /\ socket # s
         /\ onclose[s]
         /\ \/ \E code \in CloseCodes : socketCloses(s, code)
            \/ socketFails(s))
        => (/\ socket' = socket
            /\ heartbeatTimer' = heartbeatTimer
            /\ intervals' = intervals
            /\ currentState' = currentState
            /\ reconnectTimers' = reconnectTimers)

\* C31: the close event of a socket that is no longer the current socket
\* does not clear the socket reference, stop the heartbeat, change the state
\* or schedule a reconnect.
C31_StaleCloseIsIgnored == [][StaleCloseStep]_vars

\* the connect() calls that have not yet resolved or rejected
AttemptsInFlight == {s \in Sockets : attempt[s] \in {"opening", "registering"}}

\* C32: the state is connecting only while a connection attempt is in
\* flight; once connect() has thrown, or a retry has failed and its backoff
\* delay is running, the state is no longer connecting.
C32_ConnectingOnlyInFlight ==
    currentState = "connecting" => AttemptsInFlight # {}

\* C33 as stated: an interval is running only while the state is connected
\* and this.socket is open, and never more than one interval is running.
C33_HeartbeatOnlyWhileConnected ==
    /\ Cardinality(intervals) <= 1
    /\ intervals # {} => (currentState = "connected" /\ socketIsOpen(Conn))

\* the sockets created by the session that are open
OpenSockets == {s \in Sockets : readyState[s] = "OPEN"}

\* C34 as stated: at most one connection attempt is in flight and at most
\* one socket created by the session is open at any time.
C34_OneAttemptOneSocket ==
    /\ Cardinality(AttemptsInFlight) <= 1
    /\ Cardinality(OpenSockets) <= 1

\* a connect() called while isConnecting is set or this.socket is open
\* creates no socket and leaves every field as it is
EarlyReturnStep ==
    (connectReturnsEarly(Conn) /\ connectCalled)
    => (/\ Created(Conn)' = Created(Conn)
        /\ UNCHANGED <<socket, currentState, isConnecting, shouldReconnect, attempt>>)

\* C34, the guard alone: connect() during an attempt or on an open transport
\* returns without creating a socket and without changing the state.
C34_EarlyReturn == [][EarlyReturnStep]_vars

\* the session registered on a connection made before socket s, so that pods
\* assigned to it may be executing when s opens
RegisteredBefore(s) ==
    \E r \in 1..(s - 1) : \E j \in DOMAIN wire[r] : wire[r][j] = "register"

\* C35 as stated, for the connections of a session that has registered
\* before: a register message precedes every pod_status and pod_logs
\* message written to the socket.
C35_RegisterBeforeReports ==
    \A s \in Sockets : \A i \in DOMAIN wire[s] :
        (RegisteredBefore(s) /\ wire[s][i] \in ReportTypes)
        => \E j \in 1..(i - 1) : wire[s][j] = "register"

\* no call for key k is past its downloads
NoneExecuting(k) == \A d \in Execs : podKey(d) = k => ~Executing(d)

\* a deletePod for a key whose calls are all still downloading changes no
\* entry and signals no token
EarlyDeleteStep ==
    \A k \in PodKeys :
        (NoneExecuting(k) /\ deletePodEarly(k))
        => (/\ ~MapHas(runningPods, k)
            /\ UNCHANGED <<runningPods, aborted, pc, statuses, logs>>)

\* a call deleted during its downloads goes on to emit Running with its own
\* token registered and not signalled, and no cancellation error
StartAfterEarlyDeleteStep ==
    \A e \in deletedEarly :
        (Downloading(e) /\ ~Downloading(e)' /\ Len(Phases(e)') > Len(Phases(e))
            /\ Phases(e)'[Len(Phases(e)) + 1] = "Running")
        => (/\ ~aborted'[e]
            /\ thrown'[e] # ErrAborted
            /\ (Executing(e)' => (/\ MapHas(runningPods', podKey(e))
                                  /\ runningPods'[podKey(e)] = e)))

\* C37: deletePod during the download phase of executePod for the same key
\* finds no entry and is a no-op; the call afterwards registers a fresh
\* token that is not signalled and runs the module.
C37_EarlyDeleteIsNoOp ==
    /\ [][EarlyDeleteStep]_vars
    /\ [][StartAfterEarlyDeleteStep]_vars

\* C37 witness: a call whose key was deleted during its downloads has run
\* its module and returned Succeeded, its token never signalled
C37_Witness ==
    \E e \in deletedEarly :
        /\ pc[e] = "returned"
        /\ ~aborted[e]
        /\ Last(statuses[e]) = StatusSucceeded

\* the calls inside executeWASM
HostBridgeActive == {e \in Execs : pc[e] \in {"import", "init", "main"}}

\* the calls whose executeWASM failed to create its blob URL
BlobFailed == {e \in Execs : thrown[e] = ErrBlob}

\* C38 as stated, for executors that all created their blob URL: when no
\* executeWASM is active the console methods are the ones installed before
\* the first executeWASM started.
C38_ConsoleRestoredAfterAll ==
    (HostBridgeActive = {} /\ BlobFailed = {}) => console = 0

\* call e is the only call ever made, and it ran executeWASM
OnlyCall(e) == \A d \in Execs : d # e => pc[d] = "idle"

\* C39 as stated: when the only call made has gone through executeWASM and
\* returned, by whatever path, the console methods are the ones captured at
\* its start and its blob URL is revoked.
C39_SingleExecutorCleansUp ==
    \A e \in Execs :
        (OnlyCall(e) /\ pc[e] = "returned" /\ ~isWasi(e)
            /\ Len(statuses[e]) > 1 /\ statuses[e][2].phase = "Running")
        => (console = original[e] /\ e \notin blobUrls)

(***************************************************************************)
(* Properties of the Agent.                                                *)
(***************************************************************************)
\* sub can be had from seq by leaving elements out
RECURSIVE IsSubSeq(_, _)
IsSubSeq(sub, seq) ==
    IF sub = <<>> THEN TRUE
    ELSE IF seq = <<>> THEN FALSE
    ELSE IF Head(sub) = Head(seq) THEN IsSubSeq(Tail(sub), Tail(seq))
    ELSE IsSubSeq(sub, Tail(seq))

\* the statuses call e emits in a step, and the pod_status messages written
\* for it in the step
Emitted(e) == SubSeq(statuses'[e], Len(statuses[e]) + 1, Len(statuses'[e]))

Written(e) == SubSeq(reports'[e], Len(reports[e]) + 1, Len(reports'[e]))

\* a status is written in the task that emits it or not at all
DroppedNotQueuedStep ==
    \A e \in Execs :
        /\ SubSeq(reports'[e], 1, Len(reports[e])) = reports[e]
        /\ IsSubSeq(Written(e), Emitted(e))

\* the console methods are the native ones or the interceptors of an
\* executeWASM that is running
NoStaleInterceptor == console = 0 \/ console \in HostBridgeActive

\* the catch block of a failed report ends the matter: nothing is reported
\* or left to fail again, and the engine is as it was
CaughtStep ==
    \A type \in ReportTypes :
        (NoStaleInterceptor /\ reportCatch(type))
        => (/\ rejected' = [rejected EXCEPT ![type] = @ - 1]
            /\ UNCHANGED <<rtVars, wire, reports, forwarded>>)

\* the pod_status messages written for a pod are an in-order subsequence of
\* the statuses its call emitted, none of them queued or written later
C36_StatusesInOrder ==
    /\ [](\A e \in Execs : IsSubSeq(reports[e], statuses[e]))
    /\ [][DroppedNotQueuedStep]_vars

\* C36 as stated: a failed report is caught and dropped, the execution goes
\* on unaffected, and the pod_status messages written for a pod are an
\* in-order subsequence of the statuses emitted.
C36_ReportFailureIsContained ==
    /\ [](\A e \in Execs : IsSubSeq(reports[e], statuses[e]))
    /\ [][DroppedNotQueuedStep]_vars
    /\ [][CaughtStep]_vars

\* the failure lines of the agent
AgentLines == {FailedLine(type) : type \in ReportTypes}

\* the lines the interceptor of call e passes to onLog in a step
Forwarded(e) == SubSeq(forwarded'[e], Len(forwarded[e]) + 1, Len(forwarded'[e]))

\* while an executeWASM is running, none of the agent's failure lines is
\* passed to the log callback
NoFeedbackStep ==
    \A e \in HostBridgeActive : \A i \in DOMAIN Forwarded(e) :
        Forwarded(e)[i] \notin AgentLines

\* C40 as stated: while a host-bridge executor is active its interceptor
\* passes none of the agent's own failure lines to the log callback, so a
\* failed report cannot cause another report.
C40_NoFeedback == [][NoFeedbackStep]_vars

====
